---- MODULE Spec2Model ----
(***************************************************************************)
(* A model of the Stockfish controller of src/main.rs: the UCI handshake   *)
(* (StockfishController::new, wait_for), the two queries (get_best_move,   *)
(* get_evaluation), the mutex-guarded handle with its background threads   *)
(* (ThreadSafeAiController) and the full-game analyzer                     *)
(* (ChessGame::analyze_full_game and its helpers).                         *)
(*                                                                         *)
(* Text is modelled as sequences of one-character strings, so that the     *)
(* string operations of the code (starts_with, contains, find, slicing,    *)
(* split_whitespace, parse) are computed the way the code computes them.   *)
(* f32 values are modelled exactly (24-bit significand, round to nearest,  *)
(* ties to even) as records [m, e] denoting m * 2^e.                       *)
(***************************************************************************)
EXTENDS Integers, Sequences, FiniteSets, TLC

\* ======================================================================
\* Text
\* ======================================================================

\* Whether the text s begins with the text p (str::starts_with).
\* A text is the sequence of its characters.  The operations on texts are
\* functions applied to their operands, so that an operand is a value when
\* the operation uses it.
Text == Seq(STRING)

StartsWith(s, p) ==
    [x \in Text, y \in Text |->
        /\ Len(x) >= Len(y)
        /\ SubSeq(x, 1, Len(y)) = y
    ][s, p]

\* The 1-based places at which p occurs in s.
Occurrences(s, p) ==
    [x \in Text, y \in Text |->
        { i \in 1..(Len(x) - Len(y) + 1) : SubSeq(x, i, i + Len(y) - 1) = y }
    ][s, p]

\* Whether p occurs in s (str::contains).
Contains(s, p) == Occurrences(s, p) # {}

\* The 0-based byte offset of the first occurrence of p in s, or -1 for
\* None (str::find): the text is ASCII, one byte per character.
Find(s, p) ==
    [occ \in SUBSET Nat |->
        IF occ = {} THEN -1
        ELSE (CHOOSE i \in occ : \A j \in occ : i <= j) - 1
    ][Occurrences(s, p)]

\* s[from..] with a 0-based offset (a Rust slice to the end).
SliceFrom(s, from) == [x \in Text, i \in Nat |-> SubSeq(x, i + 1, Len(x))][s, from]

\* s[from..to] with 0-based offsets, to exclusive.
Slice(s, from, to) == SubSeq(s, from + 1, to)

\* char::is_whitespace for the characters that occur in a line.
IsWhitespace(c) == c \in {" ", "\n", "\t", "\r"}

\* str::split_whitespace: the maximal runs of non-whitespace characters,
\* in order.  cur is the run being collected.
RECURSIVE SplitFrom(_, _, _)
SplitFrom(s, i, cur) ==
    [x \in Text, k \in Nat, c \in Text |->
        IF k > Len(x) THEN (IF c = <<>> THEN <<>> ELSE <<c>>)
        ELSE IF IsWhitespace(x[k])
             THEN (IF c = <<>> THEN <<>> ELSE <<c>>) \o SplitFrom(x, k + 1, <<>>)
             ELSE SplitFrom(x, k + 1, Append(c, x[k]))
    ][s, i, cur]

SplitWhitespace(s) == SplitFrom(s, 1, <<>>)

\* The value of a decimal digit, or -1.
DigitValue(c) ==
    CASE c = "0" -> 0 [] c = "1" -> 1 [] c = "2" -> 2 [] c = "3" -> 3
      [] c = "4" -> 4 [] c = "5" -> 5 [] c = "6" -> 6 [] c = "7" -> 7
      [] c = "8" -> 8 [] c = "9" -> 9 [] OTHER -> -1

RECURSIVE DigitsValue(_, _)
DigitsValue(s, acc) ==
    [x \in Text, a \in Nat |->
        IF x = <<>> THEN a ELSE DigitsValue(Tail(x), a * 10 + DigitValue(Head(x)))
    ][s, acc]

\* The longest text of digits the model parses: the values of the model
\* stay far below i32::MAX, where parse::<i32> would report an overflow.
MaxDigits == 6

\* str::parse::<i32>: an optional sign followed by one or more digits and
\* nothing else.  [ok |-> FALSE] is Err.
ParseI32(s) ==
    [x \in Text |->
        LET signed == x # <<>> /\ Head(x) \in {"+", "-"}
            digits == IF signed THEN Tail(x) ELSE x
        IN  IF /\ digits # <<>>
               /\ Len(digits) <= MaxDigits
               /\ \A i \in 1..Len(digits) : DigitValue(digits[i]) >= 0
            THEN [ok |-> TRUE,
                  val |-> IF signed /\ Head(x) = "-"
                          THEN 0 - DigitsValue(digits, 0)
                          ELSE DigitsValue(digits, 0)]
            ELSE [ok |-> FALSE, val |-> 0]
    ][s]

\* ======================================================================
\* f32 arithmetic
\* ======================================================================

\* The number of bits of a natural number (0 for 0).
RECURSIVE BitLen(_)
BitLen(n) == [x \in Nat |-> IF x = 0 THEN 0 ELSE 1 + BitLen(x \div 2)][n]

Abs(i) == IF i < 0 THEN 0 - i ELSE i

\* The width of an f32 significand.
MantBits == 24

F32Zero == [m |-> 0, e |-> 0]

\* The f32 values of the model: m * 2^e, with |m| < 2^MantBits and, unless
\* m = 0, |m| >= 2^(MantBits - 1).  Every operation below is a function
\* applied to its operands, so that an operand is a value when the
\* operation uses it.
F32 == [m : Int, e : Int]

\* The f32 nearest to mag * 2^e (mag >= 0), negated when neg, where the
\* exact value exceeds mag * 2^e by a fraction of one unit of mag:
\* frac = 0 none, 1 less than half, 2 exactly half, 3 more than half.
\* Round to nearest, ties to even.
F32Round(neg, mag, e, frac) ==
    [n \in BOOLEAN, g \in Nat, x \in Int, f \in Nat |->
        LET bits == BitLen(g)
        IN  IF g = 0 THEN F32Zero
            ELSE IF bits <= MantBits
            THEN LET up == f = 3 \/ (f = 2 /\ g % 2 = 1)
                     \* a short significand is exact: it is only widened
                     q0 == IF bits = MantBits /\ up THEN g + 1 ELSE g
                     sh == MantBits - BitLen(q0)
                     q  == IF sh >= 0 THEN q0 * 2^sh ELSE q0 \div 2
                     ee == x - sh
                 IN  [m |-> IF n THEN 0 - q ELSE q, e |-> ee]
            ELSE LET k    == bits - MantBits
                     q0   == g \div 2^k
                     r    == g % 2^k
                     half == 2^(k - 1)
                     up   == \/ r > half
                             \/ (r = half /\ f # 0)
                             \/ (r = half /\ f = 0 /\ q0 % 2 = 1)
                     q1   == IF up THEN q0 + 1 ELSE q0
                     q    == IF q1 = 2^MantBits THEN 2^(MantBits - 1) ELSE q1
                     ee   == IF q1 = 2^MantBits THEN x + k + 1 ELSE x + k
                 IN  [m |-> IF n THEN 0 - q ELSE q, e |-> ee]
    ][neg, mag, e, frac]

\* An i32 as f32 (`x as f32`), for |i| < 2^31.
F32FromInt(i) == [x \in Int |-> F32Round(x < 0, Abs(x), 0, 0)][i]

\* a / d for a small positive integer d < 128 (the code divides by 100.0
\* and by 10.0, both exact in f32).
F32DivInt(a, d) ==
    [x \in F32, y \in Nat |->
        LET num == Abs(x.m) * 128
            q   == num \div y
            r   == num % y
            frac == IF r = 0 THEN 0
                    ELSE IF 2 * r < y THEN 1
                    ELSE IF 2 * r = y THEN 2 ELSE 3
        IN  F32Round(x.m < 0, q, x.e - 7, frac)
    ][a, d]

\* a * n for a small positive integer n < 128.
F32MulInt(a, n) ==
    [x \in F32, y \in Nat |-> F32Round(x.m < 0, Abs(x.m) * y, x.e, 0)][a, n]

F32Neg(a) == [x \in F32 |-> [m |-> 0 - x.m, e |-> x.e]][a]

\* a + b where a has the larger (or an equal) exponent.
F32AddOrdered(a, b) ==
    [x \in F32, y \in F32 |->
        LET d == x.e - y.e
        IN  IF d <= 6
            THEN LET s == x.m * 2^d + y.m
                 IN  F32Round(s < 0, Abs(s), y.e, 0)
            ELSE IF d >= 27
            THEN x
            ELSE LET big    == Abs(x.m) * 8
                     small  == (Abs(y.m) * 8) \div 2^d
                     sticky == (Abs(y.m) * 8) % 2^d # 0
                     same   == (x.m < 0) = (y.m < 0)
                     mag    == IF same THEN big + small
                               ELSE IF sticky THEN big - small - 1
                               ELSE big - small
                 IN  F32Round(x.m < 0, mag, x.e - 3, IF sticky THEN 1 ELSE 0)
    ][a, b]

F32Add(a, b) ==
    [x \in F32, y \in F32 |->
        IF x.m = 0 THEN y
        ELSE IF y.m = 0 THEN x
        ELSE IF x.e >= y.e THEN F32AddOrdered(x, y) ELSE F32AddOrdered(y, x)
    ][a, b]

F32Sub(a, b) == F32Add(a, F32Neg(b))

\* A value that is left as it is.
F32Unclamped(a) == a

\* f32::max(self, 0.0)
F32Max0(a) == [x \in F32 |-> IF x.m < 0 THEN F32Zero ELSE x][a]

\* `x as i32`: truncation toward zero, for values below 2^31 in size.
F32ToI32(a) ==
    [x \in F32 |->
        IF x.m = 0 THEN 0
        ELSE IF x.e >= 0 THEN x.m * 2^x.e
        ELSE IF 0 - x.e >= MantBits THEN 0
        ELSE LET q == Abs(x.m) \div 2^(0 - x.e)
             IN  IF x.m < 0 THEN 0 - q ELSE q
    ][a]

\* Whether a < b.
F32Less(a, b) == F32Sub(a, b).m < 0

\* ======================================================================
\* The chess library (crate `chess`), as far as the program uses it.
\* The board is a small pawn game that keeps what the analysis depends on:
\* a side to move, a legal-move set, captures that change the material,
\* promotions carried by the move, and positions without a legal move.
\* ======================================================================

FileChars == <<"a", "b", "c", "d", "e", "f", "g", "h">>
RankChars == <<"1", "2", "3", "4", "5", "6", "7", "8">>

\* The 0-based index of character c in chars, or -1.
IndexOf(chars, c) ==
    IF \E i \in 1..Len(chars) : chars[i] = c
    THEN (CHOOSE i \in 1..Len(chars) : chars[i] = c) - 1
    ELSE -1

\* Squares carry 0-based file and rank indices, as Square::get_file() and
\* get_rank() give them.
Sq(f, r) == [file |-> f, rank |-> r]

\* Square::from_str: fewer than two characters is an error; the first two
\* must be a file a-h and a rank 1-8; what follows them is ignored.
SquareFromStr(s) ==
    IF Len(s) < 2 THEN [ok |-> FALSE, sq |-> Sq(0, 0)]
    ELSE IF IndexOf(FileChars, s[1]) < 0 \/ IndexOf(RankChars, s[2]) < 0
    THEN [ok |-> FALSE, sq |-> Sq(0, 0)]
    ELSE [ok |-> TRUE, sq |-> Sq(IndexOf(FileChars, s[1]), IndexOf(RankChars, s[2]))]

\* Display of a Square: file letter, rank digit.
SquareText(sq) == <<FileChars[sq.file + 1], RankChars[sq.rank + 1]>>

\* ChessMove::new(source, dest, promotion); promo is "None" or a piece.
Move(src, dst, promo) == [src |-> src, dst |-> dst, promo |-> promo]

NoMove == Move(Sq(0, 0), Sq(0, 0), "None")

PromoLetter(c) ==
    CASE c = "q" -> "Queen" [] c = "r" -> "Rook"
      [] c = "n" -> "Knight" [] c = "b" -> "Bishop" [] OTHER -> "Invalid"

\* ChessMove::from_str: characters 0..2 and 2..4 must be squares; a text
\* of exactly five characters must end in a promotion letter.
ChessMoveFromStr(s) ==
    LET bad == [ok |-> FALSE, mv |-> NoMove]
    IN  IF Len(s) < 4 THEN bad
        ELSE LET src == SquareFromStr(SubSeq(s, 1, 2))
                 dst == SquareFromStr(SubSeq(s, 3, 4))
             IN  IF ~src.ok \/ ~dst.ok THEN bad
                 ELSE IF Len(s) = 5
                 THEN IF PromoLetter(s[5]) = "Invalid" THEN bad
                      ELSE [ok |-> TRUE, mv |-> Move(src.sq, dst.sq, PromoLetter(s[5]))]
                 ELSE [ok |-> TRUE, mv |-> Move(src.sq, dst.sq, "None")]

\* Display of a ChessMove (what the engine writes after "bestmove").
MoveText(mv) ==
    SquareText(mv.src) \o SquareText(mv.dst) \o
    (CASE mv.promo = "Queen" -> <<"q">> [] mv.promo = "Rook" -> <<"r">>
       [] mv.promo = "Knight" -> <<"n">> [] mv.promo = "Bishop" -> <<"b">>
       [] OTHER -> <<>>)

\* The squares of the small board: three files, four ranks.
BoardSquares == { Sq(f, r) : f \in {0, 1, 2}, r \in {0, 1, 2, 3} }

Opponent(c) == IF c = "White" THEN "Black" ELSE "White"

\* A piece on a square.
Man(color, piece, sq) == [color |-> color, piece |-> piece, sq |-> sq]

\* Board::default(): White pawns on a1 and c1, a Black pawn on b4, White
\* to move.
DefaultBoard ==
    [men |-> {Man("White", "Pawn", Sq(0, 0)), Man("White", "Pawn", Sq(2, 0)),
              Man("Black", "Pawn", Sq(1, 3))},
     stm |-> "White"]

PieceOn(board, sq) ==
    IF \E x \in board.men : x.sq = sq
    THEN (CHOOSE x \in board.men : x.sq = sq).piece
    ELSE "None"

ColorOn(board, sq) ==
    IF \E x \in board.men : x.sq = sq
    THEN (CHOOSE x \in board.men : x.sq = sq).color
    ELSE "None"

\* The pieces a pawn may promote to in the small game.
PromoPieces == {"Queen", "Knight"}

\* The rank a pawn of this colour steps to, and its promotion rank.
Forward(color, r) == IF color = "White" THEN r + 1 ELSE r - 1
LastRank(color) == IF color = "White" THEN 3 ELSE 0

\* The moves of one pawn: one step forward onto an empty square, or one
\* step diagonally forward onto a square the opponent holds; a move onto
\* the last rank names the piece it promotes to.
PawnMoves(board, x) ==
    LET r2 == Forward(x.color, x.sq.rank)
        targets ==
            { d \in BoardSquares :
                /\ d.rank = r2
                /\ \/ d.file = x.sq.file /\ PieceOn(board, d) = "None"
                   \/ /\ Abs(d.file - x.sq.file) = 1
                      /\ ColorOn(board, d) = Opponent(x.color) }
    IN  { Move(x.sq, d, "None") : d \in { t \in targets : t.rank # LastRank(x.color) } }
        \cup
        { Move(x.sq, d, p) : d \in { t \in targets : t.rank = LastRank(x.color) },
                             p \in PromoPieces }

\* The moves of a knight: to a square one file and two ranks away, or two
\* files and one rank, that no piece of its own colour holds.
KnightMoves(board, x) ==
    { Move(x.sq, d, "None") :
        d \in { t \in BoardSquares :
                  /\ {Abs(t.file - x.sq.file), Abs(t.rank - x.sq.rank)} = {1, 2}
                  /\ ColorOn(board, t) # x.color } }

\* The sign of a number.
Sgn(n) == IF n > 0 THEN 1 ELSE IF n < 0 THEN 0 - 1 ELSE 0

\* The squares strictly between two squares of a file, a rank or a diagonal.
Between(a, b) ==
    { Sq(a.file + k * Sgn(b.file - a.file), a.rank + k * Sgn(b.rank - a.rank)) :
        k \in 1..(IF Abs(b.file - a.file) > Abs(b.rank - a.rank)
                  THEN Abs(b.file - a.file) ELSE Abs(b.rank - a.rank)) - 1 }

\* The moves of a queen: along a file, a rank or a diagonal over empty
\* squares to a square that no piece of its own colour holds.
QueenMoves(board, x) ==
    { Move(x.sq, d, "None") :
        d \in { t \in BoardSquares :
                  /\ t # x.sq
                  /\ \/ t.file = x.sq.file
                     \/ t.rank = x.sq.rank
                     \/ Abs(t.file - x.sq.file) = Abs(t.rank - x.sq.rank)
                  /\ ColorOn(board, t) # x.color
                  /\ \A s \in Between(x.sq, t) : PieceOn(board, s) = "None" } }

\* The moves of one piece.
PieceMoves(board, x) ==
    CASE x.piece = "Pawn" -> PawnMoves(board, x)
      [] x.piece = "Knight" -> KnightMoves(board, x)
      [] x.piece = "Queen" -> QueenMoves(board, x)
      [] OTHER -> {}

\* MoveGen::new_legal(board): the legal moves of the side to move.
LegalMoves(board) ==
    UNION { PieceMoves(board, x) : x \in { y \in board.men : y.color = board.stm } }

\* Board::make_move_new takes the piece on the source square of the move
\* (piece_on(source).unwrap()): the call panics when that square is empty.
MakeMoveNewPanics(board, mv) == PieceOn(board, mv.src) = "None"

\* Board::make_move_new: the moved piece leaves its square, takes the
\* destination (removing what stood there), is replaced by the promotion
\* piece if the move names one, and the other side is to move.  The piece
\* is put down for the side to move, which owns it in every legal move.
MakeMoveNew(board, mv) ==
    LET mover == CHOOSE x \in board.men : x.sq = mv.src
        kept  == { x \in board.men : x.sq # mv.src /\ x.sq # mv.dst }
        piece == IF mv.promo = "None" THEN mover.piece ELSE mv.promo
    IN  [men |-> kept \cup {Man(board.stm, piece, mv.dst)},
         stm |-> Opponent(board.stm)]

\* Board::status(): without kings the small game has no checkmate; a side
\* with no legal move is stalemated.
BoardStatus(board) == IF LegalMoves(board) = {} THEN "Stalemate" ELSE "Ongoing"

\* The positions a game reaches from the initial one in at most n plies.
RECURSIVE BoardsWithin(_)
BoardsWithin(n) ==
    IF n = 0 THEN {DefaultBoard}
    ELSE BoardsWithin(n - 1) \cup
         { MakeMoveNew(b, m) : <<b, m>> \in
             UNION { {b} \X LegalMoves(b) : b \in BoardsWithin(n - 1) } }

\* The value table of simple_material_evaluation.
PieceValue(piece) ==
    CASE piece = "Pawn" -> 1 [] piece = "Knight" -> 3 [] piece = "Bishop" -> 3
      [] piece = "Rook" -> 5 [] piece = "Queen" -> 9 [] OTHER -> 0

RECURSIVE SumValues(_)
SumValues(men) ==
    IF men = {} THEN 0
    ELSE LET x == CHOOSE y \in men : TRUE
         IN  PieceValue(x.piece) + SumValues(men \ {x})

\* White's material minus Black's material, in pawns.
MaterialDiff(board) ==
    SumValues({ x \in board.men : x.color = "White" })
    - SumValues({ x \in board.men : x.color = "Black" })

\* A fallback that takes every position for level.
NeutralEvaluation(board) == F32Zero

\* ChessGame::simple_material_evaluation: the sums are small whole
\* numbers, which f32 holds exactly.
SimpleMaterialEvaluation(board) ==
    F32Sub(F32FromInt(SumValues({ x \in board.men : x.color = "White" })),
           F32FromInt(SumValues({ x \in board.men : x.color = "Black" })))

\* ======================================================================
\* The text of the UCI protocol
\* ======================================================================

TxtInfo     == <<"i", "n", "f", "o">>
TxtScore    == <<"s", "c", "o", "r", "e">>
TxtCp       == <<"c", "p">>
TxtCpSpace  == <<"c", "p", " ">>
TxtBestmove == <<"b", "e", "s", "t", "m", "o", "v", "e">>
TxtUciok    == <<"u", "c", "i", "o", "k">>
TxtReadyok  == <<"r", "e", "a", "d", "y", "o", "k">>
TxtDepth    == <<"d", "e", "p", "t", "h">>
TxtNodes    == <<"n", "o", "d", "e", "s">>
TxtPonder   == <<"p", "o", "n", "d", "e", "r">>
TxtNone     == <<"(", "n", "o", "n", "e", ")">>
TxtMate     == <<"m", "a", "t", "e">>

DigitChars == <<"0", "1", "2", "3", "4", "5", "6", "7", "8", "9">>

\* The decimal text of a natural number and of an integer.
RECURSIVE NatText(_)
NatText(n) ==
    IF n < 10 THEN <<DigitChars[n + 1]>>
    ELSE NatText(n \div 10) \o <<DigitChars[(n % 10) + 1]>>

IntText(i) == IF i < 0 THEN <<"-">> \o NatText(0 - i) ELSE NatText(i)

\* A line of output: the words separated by single spaces, then a newline.
RECURSIVE JoinWords(_)
JoinWords(words) ==
    IF words = <<>> THEN <<>>
    ELSE IF Len(words) = 1 THEN Head(words)
    ELSE Head(words) \o <<" ">> \o JoinWords(Tail(words))

Line(words) == JoinWords(words) \o <<"\n">>

\* A line whose bytes are not valid UTF-8: BufRead::read_line consumes it
\* and returns Err.  No other line of the model holds this character.
BadBytesLine == <<"\\xFF", "\n">>

IsBadBytes(line) == \E i \in 1..Len(line) : line[i] = "\\xFF"

\* ======================================================================
\* StockfishController: the loop bodies of the two queries
\* ======================================================================

\* One turn of the loop of get_best_move on a line that was read without
\* error: Continue, or the value the function returns.
BestMoveStep(line) ==
    IF StartsWith(line, TxtBestmove)
    THEN LET toks == SplitWhitespace(line)
         IN  IF Len(toks) >= 2
             THEN LET parsed == ChessMoveFromStr(toks[2])
                  IN  IF parsed.ok
                      THEN [done |-> TRUE, ok |-> TRUE, mv |-> parsed.mv, err |-> ""]
                      ELSE [done |-> TRUE, ok |-> FALSE, mv |-> NoMove,
                            err |-> "Ogiltigt drag mottaget"]
             ELSE [done |-> TRUE, ok |-> FALSE, mv |-> NoMove,
                   err |-> "Ofullstandigt bestmove-svar"]
    ELSE [done |-> FALSE, ok |-> FALSE, mv |-> NoMove, err |-> ""]

\* The centipawn value get_evaluation takes from a line, if it takes one:
\* the line starts with "info" and contains "score"; the text between the
\* first "cp " and the next space parses as an i32.
ScoreOfLine(line) ==
    LET none == [found |-> FALSE, cp |-> 0]
    IN  IF ~(StartsWith(line, TxtInfo) /\ Contains(line, TxtScore)) THEN none
        ELSE [cp_pos \in Int |->
                 IF cp_pos < 0 THEN none
                 ELSE [end \in Int |->
                          IF end < 0 THEN none
                          ELSE LET parsed == ParseI32(Slice(line, cp_pos + 3, cp_pos + 3 + end))
                               IN  IF parsed.ok
                                   THEN [found |-> TRUE, cp |-> parsed.val]
                                   ELSE none
                      ][Find(SliceFrom(line, cp_pos + 3), <<" ">>)]
             ][Find(line, TxtCpSpace)]

\* cp_value as f32 / 100.0
CpToPawns(cp) == F32DivInt(F32FromInt(cp), 100)

\* One turn of the loop of get_evaluation on a line that was read without
\* error: the new value of `evaluation`, and whether the loop breaks.
EvalStep(evaluation, line) ==
    [score \in [found : BOOLEAN, cp : Int] |->
        [evaluation |-> IF score.found THEN CpToPawns(score.cp) ELSE evaluation,
         done |-> StartsWith(line, TxtBestmove)]
    ][ScoreOfLine(line)]

\* ======================================================================
\* ChessGame: the helpers of the full-game analysis
\* ======================================================================

TxtUppgivning == <<"u", "p", "p", "g", "i", "v", "n", "i", "n", "g">>

\* ChessGame::format_move: source square, a dash, destination square.
FormatMove(mv) == SquareText(mv.src) \o <<"-">> \o SquareText(mv.dst)

\* ChessGame::find_move_from_history: the text before and after the first
\* dash must be squares, and the move from one to the other, without a
\* promotion, must be a legal move of the board.
FindMoveFromHistory(board, move_str) ==
    LET none == [ok |-> FALSE, mv |-> NoMove]
        dash_pos == Find(move_str, <<"-">>)
    IN  IF dash_pos < 0 THEN none
        ELSE LET from == SquareFromStr(Slice(move_str, 0, dash_pos))
                 to   == SquareFromStr(SliceFrom(move_str, dash_pos + 1))
             IN  IF ~from.ok \/ ~to.ok THEN none
                 ELSE LET chess_move == Move(from.sq, to.sq, "None")
                      IN  IF chess_move \in LegalMoves(board)
                          THEN [ok |-> TRUE, mv |-> chess_move]
                          ELSE none

\* ChessGame::calculate_centipawn_loss
CalculateCentipawnLoss(eval_before, eval_after, side_that_moved) ==
    LET loss == IF side_that_moved = "White"
                THEN F32Sub(eval_before, eval_after)
                ELSE F32Sub(eval_after, eval_before)
    IN  F32ToI32(F32Max0(F32MulInt(loss, 100)))

\* A classification by the thresholds alone.
ClassifyByThreshold(centipawn_loss) ==
    <<centipawn_loss >= 300, centipawn_loss >= 100, centipawn_loss >= 50>>

\* ChessGame::classify_move: (is_blunder, is_mistake, is_inaccuracy)
ClassifyMove(centipawn_loss) ==
    LET is_blunder    == centipawn_loss >= 300
        is_mistake    == centipawn_loss >= 100
        is_inaccuracy == centipawn_loss >= 50
    IN  <<is_blunder,
          is_mistake /\ ~is_blunder,
          is_inaccuracy /\ ~is_mistake /\ ~is_blunder>>

\* f32::min(self, 100.0)
F32Min100(a) ==
    [x \in F32 |-> IF F32Less(F32FromInt(100), x) THEN F32FromInt(100) ELSE x][a]

RECURSIVE SumLoss(_)
SumLoss(moves) ==
    IF moves = <<>> THEN 0
    ELSE (IF Head(moves).centipawn_loss > 0 THEN Head(moves).centipawn_loss ELSE 0)
         + SumLoss(Tail(moves))

\* An accuracy that is not kept within 0 and 100.
AccuracyUnclamped(moves) ==
    IF moves = <<>> THEN F32FromInt(100)
    ELSE F32Sub(F32FromInt(100),
                F32DivInt(F32DivInt(F32FromInt(SumLoss(moves)), Len(moves)), 10))

\* ChessGame::calculate_player_accuracy; the model keeps at most 127 moves
\* per side, so that the divisor is a small integer.
CalculatePlayerAccuracy(moves) ==
    IF moves = <<>> THEN F32FromInt(100)
    ELSE LET average_loss == F32DivInt(F32FromInt(SumLoss(moves)), Len(moves))
         IN  F32Min100(F32Max0(F32Sub(F32FromInt(100), F32DivInt(average_loss, 10))))

\* The entries of moves at the even (parity 0) or odd (parity 1) 0-based
\* indices, in order.
RECURSIVE EveryOther(_, _)
EveryOther(moves, parity) ==
    IF moves = <<>> THEN <<>>
    ELSE (IF parity = 0 THEN <<Head(moves)>> ELSE <<>>)
         \o EveryOther(Tail(moves), 1 - parity)

\* ChessGame::calculate_accuracy: (white_accuracy, black_accuracy)
CalculateAccuracy(moves) ==
    <<CalculatePlayerAccuracy(EveryOther(moves, 0)),
      CalculatePlayerAccuracy(EveryOther(moves, 1))>>

CountWhere(moves, flag) ==
    Cardinality({ i \in 1..Len(moves) : moves[i][flag] })

\* The GameAnalysis that analyze_full_game builds from its MoveAnalysis list.
MakeGameAnalysis(analysis_moves) ==
    [moves |-> analysis_moves,
     white_accuracy |-> CalculateAccuracy(analysis_moves)[1],
     black_accuracy |-> CalculateAccuracy(analysis_moves)[2],
     total_blunders |-> CountWhere(analysis_moves, "is_blunder"),
     total_mistakes |-> CountWhere(analysis_moves, "is_mistake"),
     total_inaccuracies |-> CountWhere(analysis_moves, "is_inaccuracy")]

\* ======================================================================
\* The engine process (the environment of the controller)
\* ======================================================================

\* The engine's judgement of a position in centipawns, seen from White:
\* material, and how far the pawns have advanced.
RECURSIVE SumAdvance(_)
SumAdvance(men) ==
    IF men = {} THEN 0
    ELSE LET x == CHOOSE y \in men : TRUE
         IN  (IF x.piece # "Pawn" THEN 0
              ELSE IF x.color = "White" THEN x.sq.rank
              ELSE 0 - (3 - x.sq.rank))
             + SumAdvance(men \ {x})

EngineOpinion(board) == 100 * MaterialDiff(board) + 20 * SumAdvance(board.men)

\* UCI: "score cp" is the score from the point of view of the side to move.
ScoreForSideToMove(board) ==
    IF board.stm = "White" THEN EngineOpinion(board) ELSE 0 - EngineOpinion(board)

\* "info depth 1 score cp <x> nodes 1"
ScoreLine(board) ==
    Line(<<TxtInfo, TxtDepth, <<"1">>, TxtScore, TxtCp,
           IntText(ScoreForSideToMove(board)), TxtNodes, <<"1">>>>)

\* A move text that ChessMove::from_str accepts and no position allows.
IllegalMoveText == <<"a", "1", "a", "1">>

\* The lines a protocol-conforming engine may write while it searches, and
\* the lines with which it may end the search.
GoodInfoLines(board) == {ScoreLine(board)}
GoodBestmoveLines(board) ==
    { Line(<<TxtBestmove, MoveText(m)>>) : m \in LegalMoves(board) }
    \cup (IF LegalMoves(board) = {} THEN {Line(<<TxtBestmove, TxtNone>>)} ELSE {})

\* The lines of an engine that need not conform.
AnyBestmoveLines(board) ==
    GoodBestmoveLines(board)
    \cup {Line(<<TxtBestmove, IllegalMoveText>>),
          Line(<<TxtBestmove, TxtNone>>),
          Line(<<TxtBestmove>>)}

\* ======================================================================
\* State
\* ======================================================================

VARIABLES
    alive,       \* the engine process runs (its end of the pipes is open)
    epos,        \* the position the engine was last given
    pending,     \* searches the engine was asked for and has not ended
    emitted,     \* info lines written for the search in progress
    out,         \* lines the engine wrote that nobody has read yet
    lock,        \* the task holding the Mutex of the handle, or NoTask
    pc,          \* where each background thread stands
    kind,        \* the query a thread runs: "best" or "eval"
    qboard,      \* the board passed to that query
    evaluation,  \* get_evaluation's local `evaluation`
    eofReads,    \* the turns of the read loop in progress that got Ok(0): 0, odd, even
    ret,         \* the last query a thread finished: arguments and result
    chan,        \* what each thread sent on its mpsc channel, not yet received
    recvd,       \* what the receiver of each channel got from try_recv
    an,          \* the locals of analyze_full_game
    posted,      \* the channel of start_full_game_analysis
    npc,         \* where StockfishController::new stands, or how it ended
    wpc,         \* where wait_for stands in its loop
    path,        \* the index of the path that new is trying
    elapsed,     \* start_time.elapsed() of the wait_for in progress, in seconds
    log,         \* commands written to, and awaited lines read from, the process
    last_error,  \* new's local `last_error`
    quit,        \* the process was sent "quit"
    written,     \* lines the process wrote on its own account
    input,       \* the arguments of a function that is looked at on its own
    output,      \* what the function returned for them, once it was applied
    poisoned,    \* a thread panicked while it held the Mutex of the handle
    ui,          \* where the frame of main's loop stands
    game,        \* the fields of the ChessGame
    runs,        \* the analysis threads of start_full_game_analysis
    request      \* the function that called get_best_move_async for each thread

engineVars == <<alive, epos, pending, emitted, out>>
taskVars   == <<lock, pc, kind, qboard, evaluation, eofReads, ret, chan, recvd>>
anVars     == <<an, posted>>
bootVars   == <<npc, wpc, path, elapsed, log, last_error, quit, written>>
fnVars     == <<input, output>>
uiVars     == <<ui, game, runs, request>>

\* The background threads a handle serves at once: NAsync threads of
\* get_best_move_async / get_evaluation_async, and the analysis thread.
NAsync == 2
An == 0
AsyncTasks == 1..NAsync
Tasks == {An} \cup AsyncTasks
NoTask == -1

\* The asynchronous queries that are made while a full-game analysis runs.
NBeside == 1

\* The most info lines the engine writes per search, and the longest move
\* history given to the analysis (the queries are made for the boards of
\* those histories).
MaxInfo == 1
MaxMoves == 1

NoRet ==
    [kind |-> "none", ok |-> FALSE, mv |-> NoMove, eval |-> F32Zero,
     err |-> "", board |-> DefaultBoard]

NoBest == [some |-> FALSE, mv |-> NoMove]

NoAnalysis ==
    [hist |-> <<>>, idx |-> 0, board |-> DefaultBoard, moves |-> <<>>,
     before |-> F32Zero, played |-> NoMove, best |-> NoBest, phase |-> "idle"]

\* The move histories of the games of at most n plies, as make_move
\* records them, each with the board it leads to.
RECURSIVE GamesWithin(_)
GamesWithin(n) ==
    IF n = 0 THEN {<<<<>>, DefaultBoard>>}
    ELSE GamesWithin(n - 1) \cup
         { <<Append(g[1], FormatMove(m)), MakeMoveNew(g[2], m)>> :
             <<g, m>> \in UNION { {g} \X LegalMoves(g[2]) : g \in GamesWithin(n - 1) } }

Histories == { g[1] : g \in GamesWithin(MaxMoves) } \ {<<>>}

\* The boards a query is made for.
QueryBoards == BoardsWithin(MaxMoves)

\* No function is looked at on its own.
InitFn ==
    /\ input = [fn |-> "none"]
    /\ output = <<>>

InitEngine ==
    /\ alive = TRUE
    /\ epos = DefaultBoard
    /\ pending = 0
    /\ emitted = 0
    /\ out = <<>>

InitTasks ==
    /\ lock = NoTask
    /\ pc = [t \in Tasks |-> "idle"]
    /\ kind = [t \in Tasks |-> "none"]
    /\ qboard = [t \in Tasks |-> DefaultBoard]
    /\ evaluation = [t \in Tasks |-> F32Zero]
    /\ eofReads = [t \in Tasks |-> 0]
    /\ ret = [t \in Tasks |-> NoRet]
    /\ chan = [t \in Tasks |-> <<>>]
    /\ recvd = [t \in Tasks |-> <<>>]
    /\ an = NoAnalysis
    /\ posted = <<>>

\* ======================================================================
\* ChessGame: the session
\* ======================================================================

TxtAnalysingGame == <<"A", "n", "a", "l", "y", "s", "e", "r", "a", "r", " ", "h", "e", "l", "a", " ", "p", "a", "r", "t", "i", "e", "t", ".", ".", ".", " ", "D", "e", "t", "t", "a", " ", "k", "a", "n", " ", "t", "a", " ", "n", "a", "g", "r", "a", " ", "m", "i", "n", "u", "t", "e", "r", ".">>
TxtAnalysingPosition == <<"A", "n", "a", "l", "y", "s", "e", "r", "a", "r", " ", "p", "o", "s", "i", "t", "i", "o", "n", ".", ".", ".">>
TxtAnalysisDone == <<"P", "a", "r", "t", "i", "a", "n", "a", "l", "y", "s", " ", "k", "l", "a", "r", "!", " ", "S", "e", " ", "r", "e", "s", "u", "l", "t", "a", "t", "e", "t", " ", "n", "e", "d", "a", "n", ".">>
TxtPositionMark == <<"A", "n", "a", "l", "y", "s", "e", "r", "a", "r", " ", "p", "o", "s", "i", "t", "i", "o", "n">>
TxtWonByResignation == <<" ", "v", "a", "n", "n", " ", "g", "e", "n", "o", "m", " ", "u", "p", "p", "g", "i", "v", "n", "i", "n", "g">>
TxtSvart == <<"S", "v", "a", "r", "t">>
TxtVit == <<"V", "i", "t">>

\* AiState::Idle; AiState::Thinking(rx) is the number of the thread that
\* holds the sender of rx.
Idle == 0

\* analysis_receiver: None; Some(rx) is the number of the analysis thread
\* that holds the sender of rx.
NoReceiver == 0

\* The analysis threads that are started in the sessions looked at.
MaxRuns == 2
Runs == 1..MaxRuns

None == [some |-> FALSE, text |-> <<>>]

\* selected_square: None.
NoSquare == [some |-> FALSE, sq |-> Sq(0, 0)]
Some(text) == [some |-> TRUE, text |-> text]

\* ChessGame::new.  The buttons are made active.
NewGame ==
    [board |-> DefaultBoard,
     selected_square |-> NoSquare,
     player_color |-> "White",
     game_over |-> FALSE,
     ai_state |-> Idle,
     move_history |-> <<>>,
     current_analysis |-> None,
     game_analysis |-> <<>>,
     analysis_in_progress |-> FALSE,
     analysis_receiver |-> NoReceiver,
     resign_active |-> TRUE,
     white_active |-> TRUE,
     black_active |-> TRUE,
     analyze_active |-> TRUE,
     review_mode |-> FALSE,
     review_board |-> <<>>,
     review_move_index |-> <<>>,
     original_board |-> <<>>]

\* An analysis thread that was not started.
NoRun == [state |-> "unborn", sent |-> <<>>, delivered |-> 0, moves |-> 0]

\* The Mutex when the handle is made.
InitMutex == poisoned = FALSE

\* The threads of get_best_move_async that run at once in the sessions
\* looked at, and no thread.
NUi == 1
UiTasks == 1..NUi
NoThread == 0

\* The callers of get_best_move_async, and the thread nobody has asked for.
ByStartAi == "start_ai"
ByStartAnalysis == "start_analysis"
Unasked == "none"

\* The state in which main enters its loop.
InitGame ==
    /\ ui = "update"
    /\ game = NewGame
    /\ runs = [r \in Runs |-> NoRun]
    /\ request = [t \in UiTasks |-> Unasked]

\* ======================================================================
\* The background threads
\* ======================================================================

\* analyze_full_game, the MoveAnalysis that is pushed for the move played.
MoveAnalysisOf(a, evaluation_after, centipawn_loss, class) ==
    [chess_move |-> a.played,
     move_notation |-> a.hist[a.idx + 1],
     evaluation_before |-> a.before,
     evaluation_after |-> evaluation_after,
     centipawn_loss |-> centipawn_loss,
     is_blunder |-> class[1],
     is_mistake |-> class[2],
     is_inaccuracy |-> class[3],
     best_move |-> a.best,
     best_move_notation |->
         [some |-> a.best.some,
          text |-> IF a.best.some THEN FormatMove(a.best.mv) ELSE <<>>]]

\* analyze_full_game once the centipawn loss of the move is known: the move
\* is classified and its MoveAnalysis is pushed.
AnalyzerPush(a, evaluation_after, centipawn_loss) ==
    [a EXCEPT !.moves = Append(a.moves,
                               MoveAnalysisOf(a, evaluation_after, centipawn_loss,
                                              ClassifyMove(centipawn_loss))),
              !.idx = a.idx + 1,
              !.before = F32Zero,
              !.played = NoMove,
              !.best = NoBest,
              !.phase = "loop"]

\* analyze_full_game once the evaluation after the move is known; the side
\* that moved is taken from the index of the entry.
AnalyzerAfterMove(a, evaluation_after) ==
    AnalyzerPush(a, evaluation_after,
                 CalculateCentipawnLoss(a.before, evaluation_after,
                                        IF a.idx % 2 = 0 THEN "White" ELSE "Black"))

\* analyze_full_game once the evaluation before the move is known and the
\* recorded move was looked up: an entry that is no legal move is skipped.
AnalyzerAfterLookup(a, evaluation_before, found) ==
    IF found.ok
    THEN [a EXCEPT !.before = evaluation_before,
                   !.played = found.mv,
                   !.phase = "best"]
    ELSE [a EXCEPT !.idx = a.idx + 1, !.phase = "loop"]

\* get_position_evaluation's value for a query that returned r.
EvaluationOr(r, board) == IF r.ok THEN r.eval ELSE SimpleMaterialEvaluation(board)

\* analyze_full_game after one of its three queries returned r: the
\* evaluation before the move (then the recorded move is looked up), the
\* engine's best move (then the recorded move is played), the evaluation
\* after the move (then the MoveAnalysis is pushed).
AnalyzerAfterQuery(a, r) ==
    CASE a.phase = "before" ->
           AnalyzerAfterLookup(a, EvaluationOr(r, a.board),
                               FindMoveFromHistory(a.board, a.hist[a.idx + 1]))
      [] a.phase = "best" ->
           [a EXCEPT !.best = [some |-> r.ok, mv |-> r.mv],
                     !.board = MakeMoveNew(a.board, a.played),
                     !.phase = "after"]
      [] OTHER -> AnalyzerAfterMove(a, EvaluationOr(r, a.board))

\* A Mutex that excludes nobody.
AlwaysFree == TRUE

\* Whether the Mutex is free for a thread that calls inner.lock().
LockFree == lock = NoTask

\* A guard that is never dropped.
StillHeld == lock

\* What leaving the critical section does to the Mutex.
Unlocked == NoTask

\* A query of thread t returns r: the MutexGuard is dropped; a thread of
\* get_best_move_async / get_evaluation_async sends an Ok value on its
\* channel and ends (an Err is only printed); the analysis goes on.
Return(t, r) ==
    /\ lock' = Unlocked
    /\ ret' = [ret EXCEPT ![t] = r]
    /\ eofReads' = [eofReads EXCEPT ![t] = 0]
    /\ posted' = posted
    /\ IF t = An
       THEN \E a \in {AnalyzerAfterQuery(an, r)} :
                /\ an' = a
                /\ pc' = [pc EXCEPT ![t] = IF a.phase = "loop" THEN "loop" ELSE "lock"]
                /\ kind' = [kind EXCEPT ![t] = IF a.phase = "best" THEN "best" ELSE "eval"]
                /\ qboard' = [qboard EXCEPT ![t] = a.board]
                /\ chan' = chan
       ELSE /\ an' = an
            /\ pc' = [pc EXCEPT ![t] = "done"]
            /\ kind' = kind
            /\ qboard' = qboard
            /\ chan' = [chan EXCEPT ![t] = IF r.ok THEN <<r>> ELSE <<>>]

QueryErr(t, msg) ==
    [kind |-> kind[t], ok |-> FALSE, mv |-> NoMove, eval |-> F32Zero,
     err |-> msg, board |-> qboard[t]]

\* get_best_move_async / get_evaluation_async: the channel is made and the
\* thread is spawned; it starts at inner.lock().  The threads are numbered
\* in the order in which they are spawned.
Spawn(t, k, board) ==
    /\ npc = "Ready"
    /\ pc[t] = "idle"
    /\ \A u \in AsyncTasks : u < t => pc[u] # "idle"
    /\ pc' = [pc EXCEPT ![t] = "lock"]
    /\ kind' = [kind EXCEPT ![t] = k]
    /\ qboard' = [qboard EXCEPT ![t] = board]
    /\ UNCHANGED <<lock, evaluation, eofReads, ret, chan, recvd>>
    /\ UNCHANGED <<engineVars, anVars>>
    /\ UNCHANGED bootVars
    /\ UNCHANGED fnVars
    /\ UNCHANGED <<poisoned, uiVars>>

\* start_full_game_analysis spawns the thread of analyze_full_game with a
\* copy of the move history and the initial board.
SpawnAnalyzer(history) ==
    /\ npc = "Ready"
    /\ pc[An] = "idle"
    /\ an' = [NoAnalysis EXCEPT !.hist = history, !.phase = "loop"]
    /\ pc' = [pc EXCEPT ![An] = "loop"]
    /\ UNCHANGED <<lock, kind, qboard, evaluation, eofReads, ret, chan, recvd, posted>>
    /\ UNCHANGED engineVars
    /\ UNCHANGED bootVars
    /\ UNCHANGED fnVars
    /\ UNCHANGED <<poisoned, uiVars>>

\* The head of the for loop of analyze_full_game: the next move is
\* analysed, starting with get_position_evaluation; at the end of the
\* history, or at a resignation entry, the GameAnalysis is built and sent.
AnalyzerLoop ==
    /\ pc[An] = "loop"
    /\ IF an.idx < Len(an.hist) /\ ~Contains(an.hist[an.idx + 1], TxtUppgivning)
       THEN /\ an' = [an EXCEPT !.phase = "before"]
            /\ pc' = [pc EXCEPT ![An] = "lock"]
            /\ kind' = [kind EXCEPT ![An] = "eval"]
            /\ qboard' = [qboard EXCEPT ![An] = an.board]
            /\ posted' = posted
       ELSE /\ an' = [an EXCEPT !.phase = "done"]
            /\ pc' = [pc EXCEPT ![An] = "done"]
            /\ posted' = Append(posted, MakeGameAnalysis(an.moves))
            /\ UNCHANGED <<kind, qboard>>
    /\ UNCHANGED <<lock, evaluation, eofReads, ret, chan, recvd>>
    /\ UNCHANGED engineVars
    /\ UNCHANGED bootVars
    /\ UNCHANGED fnVars
    /\ UNCHANGED <<poisoned, uiVars>>

\* The error of a query whose lock() returned a poison error.
LockErr == "Kunde inte lasa Stockfish-mutex"

\* A Mutex that is never poisoned.
NeverPoisoned == FALSE

\* Whether inner.lock() returns a poison error.
MutexPoisoned == poisoned

\* inner.lock() returning Ok: the thread blocks until the Mutex is free,
\* and holds it.
Lock(t) ==
    /\ pc[t] = "lock"
    /\ LockFree
    /\ ~MutexPoisoned
    /\ lock' = t
    /\ pc' = [pc EXCEPT ![t] = "position"]
    /\ UNCHANGED <<kind, qboard, evaluation, eofReads, ret, chan, recvd>>
    /\ UNCHANGED <<engineVars, anVars>>
    /\ UNCHANGED bootVars
    /\ UNCHANGED fnVars
    /\ UNCHANGED <<poisoned, uiVars>>

\* inner.lock() returning Err: the thread blocks until the Mutex is free;
\* on a poisoned Mutex the guard comes inside the error.  The Err arm of
\* the caller runs (a message is printed, or the material count is taken),
\* the guard is dropped, and no query was made.
LockPoisoned(t) ==
    /\ pc[t] = "lock"
    /\ LockFree
    /\ MutexPoisoned
    /\ Return(t, QueryErr(t, LockErr))
    /\ UNCHANGED <<evaluation, recvd>>
    /\ UNCHANGED engineVars
    /\ UNCHANGED bootVars
    /\ UNCHANGED fnVars
    /\ UNCHANGED <<poisoned, uiVars>>

\* get_best_move_async, after get_best_move returned Ok: the println! of
\* the move panics when the write to stdout fails.  The thread unwinds with
\* the guard in scope: the Mutex is released and poisoned, the sender is
\* dropped and nothing was sent.
PanicAtPrint(t) ==
    /\ t \in AsyncTasks
    /\ pc[t] = "read"
    /\ kind[t] = "best"
    /\ out # <<>>
    /\ ~IsBadBytes(Head(out))
    /\ \E step \in {BestMoveStep(Head(out))} :
           /\ step.done
           /\ step.ok
           /\ ret' = [ret EXCEPT ![t] = [kind |-> "best", ok |-> TRUE, mv |-> step.mv,
                                         eval |-> F32Zero, err |-> "panic",
                                         board |-> qboard[t]]]
    /\ out' = Tail(out)
    /\ lock' = NoTask
    /\ poisoned' = TRUE
    /\ pc' = [pc EXCEPT ![t] = "done"]
    /\ eofReads' = [eofReads EXCEPT ![t] = 0]
    /\ UNCHANGED <<kind, qboard, evaluation, chan, recvd>>
    /\ UNCHANGED <<alive, epos, pending, emitted>>
    /\ UNCHANGED anVars
    /\ UNCHANGED bootVars
    /\ UNCHANGED fnVars
    /\ UNCHANGED uiVars

\* send_command("position fen ..."): the write fails when the engine has
\* gone, and the query returns the error.
SendPosition(t) ==
    /\ pc[t] = "position"
    /\ IF alive
       THEN /\ epos' = qboard[t]
            /\ pc' = [pc EXCEPT ![t] = "go"]
            /\ UNCHANGED <<lock, kind, qboard, eofReads, ret, chan, anVars>>
       ELSE /\ Return(t, QueryErr(t, "Kunde inte skicka kommando"))
            /\ epos' = epos
    /\ UNCHANGED <<alive, pending, emitted, out, evaluation, recvd>>
    /\ UNCHANGED bootVars
    /\ UNCHANGED fnVars
    /\ UNCHANGED <<poisoned, uiVars>>

\* send_command("go depth ..."), and the locals of the read loop.
SendGo(t) ==
    /\ pc[t] = "go"
    /\ IF alive
       THEN /\ pending' = pending + 1
            /\ pc' = [pc EXCEPT ![t] = "read"]
            /\ evaluation' = [evaluation EXCEPT ![t] = F32Zero]
            /\ UNCHANGED <<lock, kind, qboard, eofReads, ret, chan, anVars>>
       ELSE /\ Return(t, QueryErr(t, "Kunde inte skicka kommando"))
            /\ UNCHANGED <<pending, evaluation>>
    /\ UNCHANGED <<alive, epos, emitted, out, recvd>>
    /\ UNCHANGED bootVars
    /\ UNCHANGED fnVars
    /\ UNCHANGED <<poisoned, uiVars>>

\* One read_line of the loop of get_best_move or get_evaluation, and what
\* the loop does with the line.  With nothing to read and the engine
\* running, read_line blocks.  At the end of the stream read_line returns
\* Ok(0) and leaves the line empty: is_err() is false, the empty line
\* starts with nothing, and the loop goes round again, turn after turn.
ReadLine(t) ==
    /\ pc[t] = "read"
    /\ \/ /\ out # <<>>
          /\ out' = Tail(out)
          /\ LET line == Head(out)
             IN  IF IsBadBytes(line)
                 THEN /\ Return(t, QueryErr(t, "Kunde inte lasa fran Stockfish"))
                      /\ evaluation' = evaluation
                 ELSE IF kind[t] = "best"
                 THEN \E step \in {BestMoveStep(line)} :
                          /\ evaluation' = evaluation
                          /\ IF step.done
                             THEN Return(t, [kind |-> "best", ok |-> step.ok,
                                             mv |-> step.mv, eval |-> F32Zero,
                                             err |-> step.err, board |-> qboard[t]])
                             ELSE UNCHANGED <<lock, pc, kind, qboard, eofReads, ret,
                                              chan, anVars>>
                 ELSE \E step \in {EvalStep(evaluation[t], line)} :
                          /\ evaluation' = [evaluation EXCEPT ![t] = step.evaluation]
                          /\ IF step.done
                             THEN Return(t, [kind |-> "eval", ok |-> TRUE,
                                             mv |-> NoMove, eval |-> step.evaluation,
                                             err |-> "", board |-> qboard[t]])
                             ELSE UNCHANGED <<lock, pc, kind, qboard, eofReads, ret,
                                              chan, anVars>>
       \/ /\ out = <<>>
          /\ ~alive
          /\ eofReads' = [eofReads EXCEPT ![t] = IF eofReads[t] = 1 THEN 2 ELSE 1]
          /\ UNCHANGED <<out, lock, pc, kind, qboard, evaluation, ret, chan, anVars>>
    /\ UNCHANGED <<alive, epos, pending, emitted, recvd>>
    /\ UNCHANGED bootVars
    /\ UNCHANGED fnVars
    /\ UNCHANGED <<poisoned, uiVars>>

\* The receiver of a channel polls it (try_recv).
Poll(t) ==
    /\ chan[t] # <<>>
    /\ recvd' = [recvd EXCEPT ![t] = Append(recvd[t], Head(chan[t]))]
    /\ chan' = [chan EXCEPT ![t] = Tail(chan[t])]
    /\ UNCHANGED <<lock, pc, kind, qboard, evaluation, eofReads, ret>>
    /\ UNCHANGED <<engineVars, anVars>>
    /\ UNCHANGED bootVars
    /\ UNCHANGED fnVars
    /\ UNCHANGED <<poisoned, uiVars>>

\* The engine writes a line of its search.
EngineInfo(line) ==
    /\ alive
    /\ pending > 0
    /\ emitted < MaxInfo
    /\ out' = Append(out, line)
    /\ emitted' = emitted + 1
    /\ UNCHANGED <<alive, epos, pending>>
    /\ UNCHANGED <<taskVars, anVars>>
    /\ UNCHANGED bootVars
    /\ UNCHANGED fnVars
    /\ UNCHANGED <<poisoned, uiVars>>

\* The engine writes, in the place of a line of its search, bytes that are
\* not valid UTF-8.
EngineGarble ==
    /\ alive
    /\ pending > 0
    /\ emitted < MaxInfo
    /\ out' = Append(out, BadBytesLine)
    /\ emitted' = emitted + 1
    /\ UNCHANGED <<alive, epos, pending>>
    /\ UNCHANGED <<taskVars, anVars>>
    /\ UNCHANGED bootVars
    /\ UNCHANGED fnVars
    /\ UNCHANGED <<poisoned, uiVars>>

\* The engine ends a search with a bestmove line.
EngineBestmove(line) ==
    /\ alive
    /\ pending > 0
    /\ out' = Append(out, line)
    /\ pending' = pending - 1
    /\ emitted' = 0
    /\ UNCHANGED <<alive, epos>>
    /\ UNCHANGED <<taskVars, anVars>>
    /\ UNCHANGED bootVars
    /\ UNCHANGED fnVars
    /\ UNCHANGED <<poisoned, uiVars>>

\* The engine process ends (it crashes or is killed): its pipes close;
\* what it wrote before can still be read.
EngineExit ==
    /\ alive
    /\ alive' = FALSE
    /\ pending' = 0
    /\ emitted' = 0
    /\ UNCHANGED <<epos, out>>
    /\ UNCHANGED <<taskVars, anVars>>
    /\ UNCHANGED bootVars
    /\ UNCHANGED fnVars
    /\ UNCHANGED <<poisoned, uiVars>>

\* ======================================================================
\* StockfishController::new
\* ======================================================================

\* stockfish_paths
StockfishPaths ==
    <<"stockfish.exe", "stockfish", ".\\stockfish.exe", "C:\\stockfish\\stockfish.exe">>

\* wait_for's `timeout`, in seconds.
Timeout == 5

TxtUci     == <<"u", "c", "i">>
TxtIsready == <<"i", "s", "r", "e", "a", "d", "y">>
TxtBanner  == <<"S", "t", "o", "c", "k", "f", "i", "s", "h">>

\* The entries of the log.
Sent(cmd) == [dir |-> "sent", text |-> cmd]
Got(line) == [dir |-> "read", text |-> line]

\* The most lines a process writes while new deals with it.
MaxBootLines == 2

\* What a process started from one of the paths may write: a banner, the
\* two answers of the handshake, bytes that are not valid UTF-8.
BootLines == {Line(<<TxtBanner>>), Line(<<TxtUciok>>), Line(<<TxtReadyok>>), BadBytesLine}

\* line.contains(expected) in wait_for.
LineMatches(line, expected) == Contains(line, expected)

\* A new that does not wait for the answer to isready.
ReadyAtOnce == "Ready"

\* Where new goes when the isready command was written.
AfterIsready == "wait_readyok"

\* What wait_for is waiting for at each of its two calls.
Expected == IF npc = "wait_uciok" THEN TxtUciok ELSE TxtReadyok

\* `continue` without a controller, and the end of the for loop: the next
\* path is tried; with no path left, new returns Err.
NextPath ==
    IF path < Len(StockfishPaths)
    THEN /\ path' = path + 1
         /\ npc' = "spawn"
    ELSE /\ path' = path
         /\ npc' = "Failed"

\* cmd.spawn() with the path in turn: a process starts, or spawn fails.
TrySpawn ==
    /\ npc = "spawn"
    /\ \/ /\ alive' = TRUE
          /\ out' = <<>>
          /\ log' = <<>>
          /\ quit' = FALSE
          /\ written' = 0
          /\ npc' = "send_uci"
          /\ UNCHANGED <<path, last_error>>
       \/ /\ last_error' = "Kunde inte starta"
          /\ NextPath
          /\ UNCHANGED <<alive, out, log, quit, written>>
    /\ UNCHANGED <<epos, pending, emitted, wpc, elapsed>>
    /\ UNCHANGED <<taskVars, anVars>>
    /\ UNCHANGED fnVars
    /\ UNCHANGED <<poisoned, uiVars>>

\* controller.send_command(cmd) in new, and the first lines of the
\* wait_for that follows (start_time is taken).  A write to a process that
\* has ended fails, and new goes on to the next path: the controller is
\* dropped.
SendHandshake(from, cmd, to, error) ==
    /\ npc = from
    /\ IF alive
       THEN /\ log' = Append(log, Sent(cmd))
            /\ npc' = to
            /\ wpc' = "check"
            /\ elapsed' = 0
            /\ last_error' = last_error
       ELSE /\ last_error' = error
            /\ npc' = "drop_quit"
            /\ UNCHANGED <<log, wpc, elapsed>>
    /\ UNCHANGED <<path, quit, written>>
    /\ UNCHANGED <<engineVars, taskVars, anVars>>
    /\ UNCHANGED fnVars
    /\ UNCHANGED <<poisoned, uiVars>>

SendUci == SendHandshake("send_uci", TxtUci, "wait_uciok", "Kunde inte skicka uci")

SendIsready ==
    SendHandshake("send_isready", TxtIsready, AfterIsready, "Kunde inte skicka isready")

\* A failed wait_for of which new keeps no record.
WaitForgotten ==
    /\ last_error' = last_error
    /\ npc' = "drop_quit"
    /\ UNCHANGED <<wpc, log>>

\* wait_for returns Err: new records the error and goes on to the next path.
WaitFailed ==
    /\ last_error' = IF npc = "wait_uciok" THEN "Fick inte uciok" ELSE "Fick inte readyok"
    /\ npc' = "drop_quit"
    /\ UNCHANGED <<wpc, log>>

\* The head of wait_for's loop: the timeout is looked at.
WaitCheck ==
    /\ npc \in {"wait_uciok", "wait_readyok"}
    /\ wpc = "check"
    /\ IF elapsed > Timeout
       THEN WaitFailed
       ELSE /\ wpc' = "read"
            /\ UNCHANGED <<npc, log, last_error>>
    /\ UNCHANGED <<path, elapsed, quit, written>>
    /\ UNCHANGED <<engineVars, taskVars, anVars>>
    /\ UNCHANGED fnVars
    /\ UNCHANGED <<poisoned, uiVars>>

\* read_line in wait_for's loop, and what the loop does with the result.
\* With nothing to read and the process running, read_line blocks.  After
\* a line that does not hold the expected text the thread sleeps and the
\* loop goes round.
WaitRead ==
    /\ npc \in {"wait_uciok", "wait_readyok"}
    /\ wpc = "read"
    /\ \/ /\ out # <<>>
          /\ out' = Tail(out)
          /\ LET line == Head(out)
             IN  IF IsBadBytes(line)
                 THEN WaitFailed
                 ELSE IF LineMatches(line, Expected)
                 THEN /\ log' = Append(log, Got(line))
                      /\ npc' = IF npc = "wait_uciok" THEN "send_isready" ELSE "Ready"
                      /\ UNCHANGED <<wpc, last_error>>
                 ELSE /\ wpc' = "check"
                      /\ UNCHANGED <<npc, log, last_error>>
       \/ /\ out = <<>>
          /\ ~alive
          /\ WaitFailed
          /\ out' = out
    /\ UNCHANGED <<alive, epos, pending, emitted>>
    /\ UNCHANGED <<path, elapsed, quit, written>>
    /\ UNCHANGED <<taskVars, anVars>>
    /\ UNCHANGED fnVars
    /\ UNCHANGED <<poisoned, uiVars>>

\* Drop for StockfishController, first statement: "quit" is written, and
\* an error of the write is ignored.
DropQuit ==
    /\ npc = "drop_quit"
    /\ quit' = alive
    /\ npc' = "drop_wait"
    /\ UNCHANGED <<wpc, path, elapsed, log, last_error, written>>
    /\ UNCHANGED <<engineVars, taskVars, anVars>>
    /\ UNCHANGED fnVars
    /\ UNCHANGED <<poisoned, uiVars>>

\* A drop that goes on without waiting for the process to end.
DropNoWait ==
    /\ npc = "drop_wait"
    /\ NextPath
    /\ UNCHANGED <<wpc, elapsed, log, last_error, quit, written>>
    /\ UNCHANGED <<engineVars, taskVars, anVars>>
    /\ UNCHANGED fnVars
    /\ UNCHANGED <<poisoned, uiVars>>

\* Drop for StockfishController, second statement: process.wait() returns
\* when the process has ended.  Then the loop goes on with the next path.
DropWait ==
    /\ npc = "drop_wait"
    /\ ~alive
    /\ NextPath
    /\ UNCHANGED <<wpc, elapsed, log, last_error, quit, written>>
    /\ UNCHANGED <<engineVars, taskVars, anVars>>
    /\ UNCHANGED fnVars
    /\ UNCHANGED <<poisoned, uiVars>>

\* A second passes while wait_for runs.  Beyond the timeout the clock is
\* not followed any further.
Tick ==
    /\ npc \in {"wait_uciok", "wait_readyok"}
    /\ elapsed <= Timeout
    /\ elapsed' = elapsed + 1
    /\ UNCHANGED <<npc, wpc, path, log, last_error, quit, written>>
    /\ UNCHANGED <<engineVars, taskVars, anVars>>
    /\ UNCHANGED fnVars
    /\ UNCHANGED <<poisoned, uiVars>>

\* The process writes a line, asked or not.
EngineBootWrite(line) ==
    /\ alive
    /\ written < MaxBootLines
    /\ out' = Append(out, line)
    /\ written' = written + 1
    /\ UNCHANGED <<alive, epos, pending, emitted>>
    /\ UNCHANGED <<npc, wpc, path, elapsed, log, last_error, quit>>
    /\ UNCHANGED <<taskVars, anVars>>
    /\ UNCHANGED fnVars
    /\ UNCHANGED <<poisoned, uiVars>>

\* The process obeys "quit".
EngineQuit ==
    /\ alive
    /\ quit
    /\ alive' = FALSE
    /\ pending' = 0
    /\ emitted' = 0
    /\ UNCHANGED <<epos, out>>
    /\ UNCHANGED <<taskVars, anVars, bootVars>>
    /\ UNCHANGED fnVars
    /\ UNCHANGED <<poisoned, uiVars>>

\* A step of new.
NewStep ==
    \/ TrySpawn
    \/ SendUci
    \/ WaitCheck
    \/ WaitRead
    \/ SendIsready
    \/ DropQuit
    \/ DropWait

\* The log of a process that new returned in a controller.
HandshakeLog ==
    <<Sent(TxtUci), Got(Line(<<TxtUciok>>)), Sent(TxtIsready), Got(Line(<<TxtReadyok>>))>>

\* The state in which main has its controller: new returned Ok for the
\* first path.
InitBooted ==
    /\ npc = "Ready"
    /\ wpc = "check"
    /\ path = 1
    /\ elapsed = 0
    /\ log = HandshakeLog
    /\ last_error = ""
    /\ quit = FALSE
    /\ written = 0

\* The state in which new is called.
InitNew ==
    /\ npc = "spawn"
    /\ wpc = "check"
    /\ path = 1
    /\ elapsed = 0
    /\ log = <<>>
    /\ last_error = ""
    /\ quit = FALSE
    /\ written = 0
    /\ alive = FALSE
    /\ epos = DefaultBoard
    /\ pending = 0
    /\ emitted = 0
    /\ out = <<>>
    /\ InitTasks
    /\ InitFn
    /\ InitMutex
    /\ InitGame

vars == <<engineVars, taskVars, anVars, bootVars, fnVars, poisoned, uiVars>>

Init == InitEngine /\ InitTasks /\ InitBooted /\ InitFn /\ InitMutex /\ InitGame

\* The handle, the full-game analysis and the asynchronous queries beside
\* it, with an engine that may end at any moment.
Next ==
    \/ \E t \in 1..NBeside, k \in {"best", "eval"}, b \in QueryBoards : Spawn(t, k, b)
    \/ \E h \in Histories : SpawnAnalyzer(h)
    \/ AnalyzerLoop
    \/ \E t \in Tasks : Lock(t)
    \/ \E t \in Tasks : SendPosition(t)
    \/ \E t \in Tasks : SendGo(t)
    \/ \E t \in Tasks : ReadLine(t)
    \/ \E t \in AsyncTasks : Poll(t)
    \/ \E l \in GoodInfoLines(epos) : EngineInfo(l)
    \/ \E l \in AnyBestmoveLines(epos) : EngineBestmove(l)
    \/ EngineExit

Spec == Init /\ [][Next]_vars

\* A step of background thread t.
ThreadStep(t) ==
    \/ Lock(t)
    \/ SendPosition(t)
    \/ SendGo(t)
    \/ ReadLine(t)
    \/ (t = An /\ AnalyzerLoop)

\* A running engine ends every search it was asked for.
EngineAnswers == WF_vars(\E l \in AnyBestmoveLines(epos) : EngineBestmove(l))

\* The asynchronous queries on a handle whose engine answers every search
\* with a bestmove line (of any content) and never goes away.
NextServe ==
    \/ \E t \in AsyncTasks, k \in {"best", "eval"}, b \in QueryBoards : Spawn(t, k, b)
    \/ \E t \in AsyncTasks : Lock(t)
    \/ \E t \in AsyncTasks : SendPosition(t)
    \/ \E t \in AsyncTasks : SendGo(t)
    \/ \E t \in AsyncTasks : ReadLine(t)
    \/ \E t \in AsyncTasks : Poll(t)
    \/ \E l \in GoodInfoLines(epos) : EngineInfo(l)
    \/ \E l \in AnyBestmoveLines(epos) : EngineBestmove(l)

\* The operating system runs every thread that can run and the update loop
\* polls its receivers in every frame.  Nothing obliges anybody to start a
\* query.
FairServe ==
    /\ \A t \in AsyncTasks : WF_vars(ThreadStep(t)) /\ WF_vars(Poll(t))
    /\ EngineAnswers

SpecServe == Init /\ [][NextServe]_vars /\ FairServe

\* The full-game analysis alone on the handle, with an engine that may
\* write unreadable bytes and may end at any moment.
NextAnalysis ==
    \/ \E h \in Histories : SpawnAnalyzer(h)
    \/ AnalyzerLoop
    \/ Lock(An)
    \/ SendPosition(An)
    \/ SendGo(An)
    \/ ReadLine(An)
    \/ \E l \in GoodInfoLines(epos) : EngineInfo(l)
    \/ \E l \in AnyBestmoveLines(epos) : EngineBestmove(l)
    \/ EngineGarble
    \/ EngineExit

\* The analysis thread runs whenever it can.  Nothing obliges the engine to
\* go away.
FairAnalysis == WF_vars(ThreadStep(An)) /\ EngineAnswers

SpecAnalysis == Init /\ [][NextAnalysis]_vars /\ FairAnalysis

\* StockfishController::new with whatever the paths lead to, and the first
\* use that main makes of the controller it got.
NextNew ==
    \/ TrySpawn
    \/ SendUci
    \/ WaitCheck
    \/ WaitRead
    \/ SendIsready
    \/ DropQuit
    \/ DropWait
    \/ Tick
    \/ \E l \in BootLines : EngineBootWrite(l)
    \/ EngineQuit
    \/ EngineExit
    \/ \E k \in {"best", "eval"}, b \in QueryBoards : Spawn(1, k, b)
    \/ Lock(1)
    \/ SendPosition(1)
    \/ SendGo(1)

\* The thread that calls new runs, time passes, and a process that was
\* told to quit ends.  Nothing obliges a process to write anything.
FairNew ==
    /\ WF_vars(NewStep)
    /\ WF_vars(Tick)
    /\ WF_vars(EngineQuit)

SpecNew == InitNew /\ [][NextNew]_vars /\ FairNew

\* ======================================================================
\* Properties of the handle and its threads
\* ======================================================================

\* Thread t has sent its position command and has not yet returned.
InFlight(t) == pc[t] \in {"go", "read"}

\* Thread t stands at a write to the engine's stdin or a read of its stdout.
AtEngineIO(t) == pc[t] \in {"position", "go", "read"}

\* C1: at most one query is in flight on the engine process: while a query
\* is between its position command and its return, no other thread stands
\* at a write to the engine or a read from it.
OneQueryInFlight ==
    \A t1, t2 \in Tasks : (InFlight(t1) /\ AtEngineIO(t2)) => t1 = t2

\* The analysis reads the engine's answer to its best-move query while an
\* asynchronous query waits for the Mutex.
QueryWaitsForAnalysis ==
    /\ pc[An] = "read"
    /\ kind[An] = "best"
    /\ \E t \in AsyncTasks : pc[t] = "lock"

\* C2: with an engine that answers every search with a bestmove line, every
\* query that was issued completes, a query that returned a value has that
\* value received exactly once on its own receiver, and no channel ever
\* carries a second value.
BothQueriesDeliverOnce ==
    /\ [](\A t \in AsyncTasks : Len(chan[t]) + Len(recvd[t]) <= 1)
    /\ \A t \in AsyncTasks :
         (pc[t] # "idle") ~>
             /\ pc[t] = "done"
             /\ chan[t] = <<>>
             /\ recvd[t] = IF ret[t].ok THEN <<ret[t]>> ELSE <<>>
             /\ ret[t].kind = kind[t]
             /\ ret[t].board = qboard[t]

\* Two best-move queries for the same position were issued one after the
\* other, and each receiver holds the move of its own query.
TwoBestMovesReceived ==
    /\ \A t \in AsyncTasks :
         /\ kind[t] = "best"
         /\ qboard[t] = DefaultBoard
         /\ Len(recvd[t]) = 1
         /\ recvd[t][1].ok
    /\ recvd[1][1].mv \in LegalMoves(DefaultBoard)

\* C3: a get_best_move that has met the end of the engine's output does not
\* go on reading: it returns an error.
BestMoveStopsAtEof ==
    \A t \in Tasks : ~(pc[t] = "read" /\ kind[t] = "best" /\ eofReads[t] > 0)

\* C4: a full-game analysis that was started ends and posts its
\* GameAnalysis, also when the engine goes away during the run.
AnalysisAlwaysPosts == (pc[An] # "idle") ~> (posted # <<>>)

\* C5: a best move that a query returned as a success is a legal move of
\* the position the query was made for.
BestMoveIsLegal ==
    \A t \in Tasks :
        (ret[t].kind = "best" /\ ret[t].ok) => ret[t].mv \in LegalMoves(ret[t].board)

\* The board after the first n entries of a move history (entries that
\* cannot be resolved leave the board as it is).
RECURSIVE ReplayBoard(_, _)
ReplayBoard(hist, n) ==
    IF n = 0 THEN DefaultBoard
    ELSE LET before == ReplayBoard(hist, n - 1)
             found == FindMoveFromHistory(before, hist[n])
         IN  IF found.ok THEN MakeMoveNew(before, found.mv) ELSE before

\* What an evaluation of a board may be when it is relative to White: the
\* engine's judgement seen from White, the material count, or the neutral
\* 0.0 of a search that reported no score.
WhiteRelative(board) ==
    {CpToPawns(EngineOpinion(board)), SimpleMaterialEvaluation(board), F32Zero}

\* C9: every evaluation that get_evaluation returns, and every evaluation
\* stored in a MoveAnalysis, is relative to White.
EvaluationIsWhiteRelative ==
    /\ \A t \in Tasks :
         (ret[t].kind = "eval" /\ ret[t].ok) => ret[t].eval \in WhiteRelative(ret[t].board)
    /\ \A i \in 1..Len(an.moves) :
         /\ an.moves[i].evaluation_before \in WhiteRelative(ReplayBoard(an.hist, i - 1))
         /\ an.moves[i].evaluation_after \in WhiteRelative(ReplayBoard(an.hist, i))

\* ======================================================================
\* Properties of StockfishController::new
\* ======================================================================

\* C6: new always comes to an end, with a controller or with an error,
\* whatever the processes it starts write or do not write.
NewAlwaysReturns == <>(npc \in {"Ready", "Failed"})

\* The handshake with the process in hand is complete: "uci" was written,
\* then a line holding "uciok" was read, then "isready" was written, then a
\* line holding "readyok" was read, and nothing else was written.
HandshakeComplete ==
    /\ Len(log) = Len(HandshakeLog)
    /\ log[1] = Sent(TxtUci)
    /\ log[2].dir = "read" /\ Contains(log[2].text, TxtUciok)
    /\ log[3] = Sent(TxtIsready)
    /\ log[4].dir = "read" /\ Contains(log[4].text, TxtReadyok)

\* A thread writes a position or a go command.
WritesQuery == \E t \in Tasks : SendPosition(t) \/ SendGo(t)

\* C7: new returns a controller only when the handshake with its process
\* is complete, and a position or go command is only ever written to a
\* process whose handshake is complete.
ReadyOnlyAfterHandshake ==
    /\ [](npc = "Ready" => HandshakeComplete)
    /\ [][WritesQuery => HandshakeComplete]_vars

\* The first path fails, the second yields a controller, and a query has
\* written its position and go commands to that process.
SecondPathServesQuery ==
    /\ npc = "Ready"
    /\ path = 2
    /\ pc[1] = "read"

\* ======================================================================
\* get_evaluation's read loop on a complete answer
\* ======================================================================

\* The read loop of get_evaluation, turn by turn, on the lines the engine
\* wrote for the search: Ok(evaluation) at the bestmove line, Err at a line
\* that cannot be read.  (With the lines used up the loop would wait for
\* more; every answer of AnswersWithin ends with a bestmove line.)
RECURSIVE EvaluationLoop(_, _)
EvaluationLoop(eval, lines) ==
    IF lines = <<>> \/ IsBadBytes(Head(lines))
    THEN [ok |-> FALSE, eval |-> F32Zero]
    ELSE [step \in [evaluation : F32, done : BOOLEAN] |->
             IF step.done
             THEN [ok |-> TRUE, eval |-> step.evaluation]
             ELSE EvaluationLoop(step.evaluation, Tail(lines))
         ][EvalStep(eval, Head(lines))]

\* The most info lines of an answer, and the centipawn values they report.
MaxReports == 3
ReportCps == {-20, 35}

\* Info lines a UCI engine may write: a score in the middle of the line,
\* a score as the last field, no score, a mate score.
ReportLines ==
    { Line(<<TxtInfo, TxtDepth, <<"1">>, TxtScore, TxtCp, IntText(v), TxtNodes, <<"1">>>>) :
        v \in ReportCps }
    \cup { Line(<<TxtInfo, TxtDepth, <<"1">>, TxtScore, TxtCp, IntText(v)>>) : v \in ReportCps }
    \cup { Line(<<TxtInfo, TxtDepth, <<"1">>, TxtNodes, <<"1">>>>),
           Line(<<TxtInfo, TxtDepth, <<"1">>, TxtScore, TxtMate, <<"2">>, TxtNodes, <<"1">>>>) }

\* The sequences of at most n info lines.
RECURSIVE ReportsWithin(_)
ReportsWithin(n) ==
    IF n = 0 THEN {<<>>}
    ELSE ReportsWithin(n - 1) \cup
         { Append(r, l) : <<r, l>> \in ReportsWithin(n - 1) \X ReportLines }

\* The complete answers to a search of the initial position.
AnswersWithin(n) ==
    { r \o <<b>> : <<r, b>> \in ReportsWithin(n) \X GoodBestmoveLines(DefaultBoard) }

InitEval ==
    /\ InitEngine /\ InitTasks /\ InitBooted /\ InitMutex /\ InitGame
    /\ input \in { [fn |-> "get_evaluation", lines |-> a] : a \in AnswersWithin(MaxReports) }
    /\ output = <<>>

ApplyGetEvaluation ==
    /\ input.fn = "get_evaluation"
    /\ output = <<>>
    /\ output' = <<EvaluationLoop(F32Zero, input.lines)>>
    /\ input' = input
    /\ UNCHANGED <<engineVars, taskVars, anVars, bootVars>>
    /\ UNCHANGED <<poisoned, uiVars>>

SpecEval == InitEval /\ [][ApplyGetEvaluation]_vars

\* The value of the "score cp <value>" field of an info line, if it has one:
\* the line's fields are its words.
ScoreField(line) ==
    [toks \in Seq(Text) |->
        LET at == { i \in 1..(Len(toks) - 2) :
                      /\ toks[i] = TxtScore
                      /\ toks[i + 1] = TxtCp
                      /\ ParseI32(toks[i + 2]).ok }
        IN  IF toks # <<>> /\ toks[1] = TxtInfo /\ at # {}
            THEN [found |-> TRUE, cp |-> ParseI32(toks[(CHOOSE i \in at : TRUE) + 2]).val]
            ELSE [found |-> FALSE, cp |-> 0]
    ][SplitWhitespace(line)]

\* The value of the last score field of the lines, in pawns; 0.0 without one.
RECURSIVE LastScore(_)
LastScore(lines) ==
    IF lines = <<>> THEN F32Zero
    ELSE IF ScoreField(lines[Len(lines)]).found
    THEN CpToPawns(ScoreField(lines[Len(lines)]).cp)
    ELSE LastScore(SubSeq(lines, 1, Len(lines) - 1))

\* C8: get_evaluation returns, as a success, the value of the last
\* "score cp <value>" field of the info lines of the answer, in pawns,
\* wherever the field stands in its line, and 0.0 when there is none.
EvaluationIsLastScore ==
    output # <<>> => output[1] = [ok |-> TRUE, eval |-> LastScore(input.lines)]

\* ======================================================================
\* calculate_centipawn_loss on its own
\* ======================================================================

\* The evaluations are those of centipawn values up to MaxCp in size, and
\* of whole pawns up to MaxCp in number.
MaxCp == 30
LossCps == (-MaxCp..MaxCp) \cup { 100 * c : c \in -MaxCp..MaxCp }

InitLoss ==
    /\ InitEngine /\ InitTasks /\ InitBooted /\ InitMutex /\ InitGame
    /\ input \in { [fn |-> "calculate_centipawn_loss", before |-> b, after |-> a,
                    side_that_moved |-> c] :
                     <<b, a, c>> \in LossCps \X LossCps \X {"White", "Black"} }
    /\ output = <<>>

ApplyCentipawnLoss ==
    /\ input.fn = "calculate_centipawn_loss"
    /\ output = <<>>
    /\ output' = <<CalculateCentipawnLoss(CpToPawns(input.before), CpToPawns(input.after),
                                          input.side_that_moved)>>
    /\ input' = input
    /\ UNCHANGED <<engineVars, taskVars, anVars, bootVars>>
    /\ UNCHANGED <<poisoned, uiVars>>

SpecLoss == InitLoss /\ [][ApplyCentipawnLoss]_vars

\* The move did not make the mover's evaluation worse: the evaluations are
\* relative to White, and cp / 100.0 is monotonic in cp.
Improving ==
    IF input.side_that_moved = "White"
    THEN input.after >= input.before
    ELSE input.after <= input.before

\* C10: the centipawn loss of a move is never negative, for every pair of
\* evaluations and either mover, and it is 0 for a move that does not make
\* the mover's evaluation worse.
LossNeverNegative ==
    output # <<>> => (output[1] >= 0 /\ (Improving => output[1] = 0))

\* Black improved its evaluation by a pawn and a half, and the loss was
\* computed.
BlackImprovedWithoutLoss ==
    /\ input.fn = "calculate_centipawn_loss"
    /\ input.side_that_moved = "Black"
    /\ input.before - input.after >= 150
    /\ output = <<0>>

\* The difference of the two evaluations in centipawns, seen from the side
\* that moved, and not below 0.
LossInCentipawns ==
    LET diff == IF input.side_that_moved = "White"
                THEN input.before - input.after
                ELSE input.after - input.before
    IN  IF diff > 0 THEN diff ELSE 0

\* C11: the centipawn loss of a move equals max(0, before - after) in
\* centipawns when White moved and max(0, after - before) when Black moved;
\* a White move from +1.0 to -2.0 has loss 300 and is a blunder.
LossIsDifference ==
    output # <<>> =>
        /\ output[1] = LossInCentipawns
        /\ (/\ input.side_that_moved = "White"
            /\ input.before = 100
            /\ input.after = -200) =>
               (output[1] = 300 /\ ClassifyMove(output[1])[1])

\* ======================================================================
\* classify_move on its own
\* ======================================================================

\* The largest centipawn loss that is classified; the losses start below 0.
MaxLoss == 400
LossValues == -MaxLoss..MaxLoss

InitClassify ==
    /\ InitEngine /\ InitTasks /\ InitBooted /\ InitMutex /\ InitGame
    /\ input \in { [fn |-> "classify_move", centipawn_loss |-> l] : l \in LossValues }
    /\ output = <<>>

ApplyClassifyMove ==
    /\ input.fn = "classify_move"
    /\ output = <<>>
    /\ output' = <<ClassifyMove(input.centipawn_loss)>>
    /\ input' = input
    /\ UNCHANGED <<engineVars, taskVars, anVars, bootVars>>
    /\ UNCHANGED <<poisoned, uiVars>>

SpecClassify == InitClassify /\ [][ApplyClassifyMove]_vars

\* C12: the severity flags are a strict partition by the thresholds 300,
\* 100 and 50: blunder iff loss >= 300, mistake iff 100 <= loss < 300,
\* inaccuracy iff 50 <= loss < 100, and no two flags are set together.
SeverityIsPartition ==
    output # <<>> =>
        LET loss == input.centipawn_loss
            is_blunder == output[1][1]
            is_mistake == output[1][2]
            is_inaccuracy == output[1][3]
            none == ~is_blunder /\ ~is_mistake /\ ~is_inaccuracy
        IN  /\ is_blunder <=> loss >= 300
            /\ is_mistake <=> (100 <= loss /\ loss < 300)
            /\ is_inaccuracy <=> (50 <= loss /\ loss < 100)
            /\ none <=> loss < 50
            /\ Cardinality({ i \in 1..3 : output[1][i] }) <= 1

\* A loss of 299 was classified as a mistake and not as a blunder.
Loss299IsMistake ==
    /\ input.fn = "classify_move"
    /\ input.centipawn_loss = 299
    /\ output = <<<<FALSE, TRUE, FALSE>>>>

\* ======================================================================
\* calculate_accuracy on its own
\* ======================================================================

\* The most analysed moves of a game, and the centipawn losses they have.
MaxAccMoves == 4
AccLosses == {0, 1, 50, 300, 999, 1500, 2000}

RECURSIVE LossListsWithin(_)
LossListsWithin(n) ==
    IF n = 0 THEN {<<>>}
    ELSE LossListsWithin(n - 1) \cup
         { Append(s, [centipawn_loss |-> l]) : <<s, l>> \in LossListsWithin(n - 1) \X AccLosses }

InitAccuracy ==
    /\ InitEngine /\ InitTasks /\ InitBooted /\ InitMutex /\ InitGame
    /\ input \in { [fn |-> "calculate_accuracy", moves |-> s] : s \in LossListsWithin(MaxAccMoves) }
    /\ output = <<>>

ApplyCalculateAccuracy ==
    /\ input.fn = "calculate_accuracy"
    /\ output = <<>>
    /\ output' = <<CalculateAccuracy(input.moves)>>
    /\ input' = input
    /\ UNCHANGED <<engineVars, taskVars, anVars, bootVars>>
    /\ UNCHANGED <<poisoned, uiVars>>

SpecAccuracy == InitAccuracy /\ [][ApplyCalculateAccuracy]_vars

\* The places of a side's moves in the list: White's are the first, third,
\* ..., Black's the second, fourth, ...
SidePlaces(moves, side) ==
    { i \in 1..Len(moves) : (i % 2 = 1) <=> (side = "White") }

RECURSIVE TotalLoss(_, _)
TotalLoss(moves, places) ==
    IF places = {} THEN 0
    ELSE LET i == CHOOSE j \in places : TRUE
         IN  moves[i].centipawn_loss + TotalLoss(moves, places \ {i})

\* An f32 between 0 and 128 in units of 1/1024, rounded down.
InThousandths(a) ==
    IF a.m = 0 THEN 0 ELSE a.m \div 2^((0 - a.e) - 10)

\* Whether accuracy is clamp(100 - (average loss) / 10, 0, 100) for a side
\* with n moves that lost total centipawns in all: exactly at the ends of
\* the range and for no moves, and to 1/512 in between.
IsClampedAccuracy(accuracy, n, total) ==
    IF n = 0 THEN accuracy = F32FromInt(100)
    ELSE IF total = 0 THEN accuracy = F32FromInt(100)
    ELSE IF total >= 1000 * n THEN accuracy = F32Zero
    ELSE /\ accuracy.m > 0
         /\ F32Less(accuracy, F32FromInt(100))
         /\ Abs(InThousandths(accuracy) - ((1000 * n - total) * 1024) \div (10 * n)) <= 1

\* C13: each side's accuracy is clamp(100 - (average centipawn loss of the
\* side's analysed moves) / 10, 0, 100): it lies between 0 and 100 and is
\* exactly 100.0 for a side without analysed moves.
AccuracyIsClampedAverage ==
    output # <<>> =>
        \A side \in {"White", "Black"} :
            LET accuracy == output[1][IF side = "White" THEN 1 ELSE 2]
                places == SidePlaces(input.moves, side)
            IN  /\ accuracy.m >= 0
                /\ ~F32Less(F32FromInt(100), accuracy)
                /\ IsClampedAccuracy(accuracy, Cardinality(places),
                                     TotalLoss(input.moves, places))

\* White's moves lost 300 and 50 centipawns and Black's only move lost
\* 1500: White's accuracy is 82.5 and Black's is 0.0.
AccuracyOfThreeMoves ==
    /\ input.fn = "calculate_accuracy"
    /\ Len(input.moves) = 3
    /\ input.moves[1].centipawn_loss = 300
    /\ input.moves[2].centipawn_loss = 1500
    /\ input.moves[3].centipawn_loss = 50
    /\ output = <<<<F32DivInt(F32FromInt(165), 2), F32Zero>>>>

\* ======================================================================
\* The full-game analysis when every engine query fails
\* ======================================================================

\* The longest game that is analysed with a failing engine.
MaxFallbackMoves == 7

\* ChessGame::resign's entry of the move history.
ResignEntry(player_color) ==
    (IF player_color = "White" THEN TxtSvart ELSE TxtVit) \o TxtWonByResignation

\* The game c1-c2, b4-b3, c2-c3, b3-b2, c3-c4=Q, b2xa1=Q, Qc4-b3, Qa1-a2
\* as make_move records it.
QueensGame ==
    <<FormatMove(Move(Sq(2, 0), Sq(2, 1), "None")), FormatMove(Move(Sq(1, 3), Sq(1, 2), "None")),
      FormatMove(Move(Sq(2, 1), Sq(2, 2), "None")), FormatMove(Move(Sq(1, 2), Sq(1, 1), "None")),
      FormatMove(Move(Sq(2, 2), Sq(2, 3), "Queen")), FormatMove(Move(Sq(1, 1), Sq(0, 0), "Queen")),
      FormatMove(Move(Sq(2, 3), Sq(1, 2), "None")), FormatMove(Move(Sq(0, 0), Sq(0, 1), "None"))>>

\* The histories analysed: the games of at most MaxFallbackMoves plies, the
\* games of at most two plies that the player resigned, a game in which
\* the engine's move arrived after the resignation, and a game of eight
\* plies in which both sides promote and move their queens.
FallbackHistories ==
    ({ g[1] : g \in GamesWithin(MaxFallbackMoves) } \ {<<>>})
    \cup { Append(g[1], ResignEntry("White")) : g \in GamesWithin(2) }
    \cup { <<FormatMove(Move(Sq(0, 0), Sq(0, 1), "None")), ResignEntry("White"),
             FormatMove(Move(Sq(1, 3), Sq(1, 2), "None"))>> }
    \cup { QueensGame }

\* The engine process has ended, or a thread has poisoned the Mutex, or
\* both: no query of the handle succeeds.
InitFallback ==
    /\ alive \in BOOLEAN
    /\ poisoned \in BOOLEAN
    /\ ~alive \/ poisoned
    /\ epos = DefaultBoard
    /\ pending = 0
    /\ emitted = 0
    /\ out = <<>>
    /\ InitTasks
    /\ InitBooted
    /\ InitFn
    /\ InitGame

NextFallback ==
    \/ \E h \in FallbackHistories : SpawnAnalyzer(h)
    \/ AnalyzerLoop
    \/ Lock(An)
    \/ LockPoisoned(An)
    \/ SendPosition(An)

\* The analysis thread runs whenever it can.
FairFallback == WF_vars(AnalyzerLoop \/ Lock(An) \/ LockPoisoned(An) \/ SendPosition(An))

SpecFallback == InitFallback /\ [][NextFallback]_vars /\ FairFallback

\* The entries of a history that are replayed: those before the first
\* resignation entry.
RECURSIVE ReplayedLen(_, _)
ReplayedLen(hist, i) ==
    IF i > Len(hist) \/ Contains(hist[i], TxtUppgivning) THEN i - 1
    ELSE ReplayedLen(hist, i + 1)

\* Whether entry i of a history is a legal move of the position that the
\* entries before it lead to.
Resolvable(hist, i) == FindMoveFromHistory(ReplayBoard(hist, i - 1), hist[i]).ok

\* The material of a board as the claim counts it: White minus Black.
MaterialCount(board) ==
    LET worth == [p \in {"Pawn", "Knight", "Bishop", "Rook", "Queen", "King"} |->
                    CASE p = "Pawn" -> 1 [] p \in {"Knight", "Bishop"} -> 3
                      [] p = "Rook" -> 5 [] p = "Queen" -> 9 [] OTHER -> 0]
        count(c, p) == Cardinality({ x \in board.men : x.color = c /\ x.piece = p })
        side(c) == count(c, "Pawn") * worth["Pawn"] + count(c, "Knight") * worth["Knight"]
                   + count(c, "Bishop") * worth["Bishop"] + count(c, "Rook") * worth["Rook"]
                   + count(c, "Queen") * worth["Queen"] + count(c, "King") * worth["King"]
    IN  side("White") - side("Black")

\* What a MoveAnalysis says of the move, the evaluations and the best move.
Told(m) ==
    [move_notation |-> m.move_notation,
     evaluation_before |-> m.evaluation_before,
     evaluation_after |-> m.evaluation_after,
     best_move |-> m.best_move]

\* The same for entries 1..n of a history when the evaluations are the
\* material counts and no best move is known: one for each resolvable entry.
RECURSIVE MaterialReplay(_, _)
MaterialReplay(hist, n) ==
    IF n = 0 THEN <<>>
    ELSE IF Resolvable(hist, n)
    THEN Append(MaterialReplay(hist, n - 1),
                [move_notation |-> hist[n],
                 evaluation_before |-> F32FromInt(MaterialCount(ReplayBoard(hist, n - 1))),
                 evaluation_after |-> F32FromInt(MaterialCount(ReplayBoard(hist, n))),
                 best_move |-> NoBest])
    ELSE MaterialReplay(hist, n - 1)

\* C14: when every engine query fails, the analysis still ends and posts a
\* GameAnalysis with one MoveAnalysis for each resolvable recorded move,
\* whose evaluations before and after are the material counts of the
\* positions before and after the move and whose best move is absent.
FallbackAnalysisIsMaterial ==
    /\ [](posted # <<>> =>
            /\ Len(posted) = 1
            /\ [i \in 1..Len(posted[1].moves) |-> Told(posted[1].moves[i])]
               = MaterialReplay(an.hist, ReplayedLen(an.hist, 1)))
    /\ ((pc[An] # "idle") ~> (posted # <<>>))

\* The game a1-a2, b4-b3, a2xb3 is analysed with a dead engine: three
\* moves, and the capture raises the material count from +1 to +2.
CaptureAnalysedByMaterial ==
    /\ ~alive
    /\ posted # <<>>
    /\ Len(an.hist) = 3
    /\ Len(posted[1].moves) = 3
    /\ posted[1].moves[3].evaluation_before = F32FromInt(1)
    /\ posted[1].moves[3].evaluation_after = F32FromInt(2)
    /\ ~posted[1].moves[3].best_move.some

\* The number of entries before the first one that is not resolvable (or
\* is the resignation entry).
RECURSIVE ResolvedPrefix(_, _)
ResolvedPrefix(hist, i) ==
    IF i > ReplayedLen(hist, 1) \/ ~Resolvable(hist, i) THEN i - 1
    ELSE ResolvedPrefix(hist, i + 1)

\* C15: when a recorded move matches no legal move of the replay position,
\* the analysis holds exactly the moves before it: none for that move or
\* for any later one.
UnresolvableMoveEndsReplay ==
    posted # <<>> =>
        [i \in 1..Len(posted[1].moves) |-> posted[1].moves[i].move_notation]
        = SubSeq(an.hist, 1, ResolvedPrefix(an.hist, 1))

\* ======================================================================
\* Asynchronous queries on a Mutex that a panic poisons
\* ======================================================================

\* The asynchronous queries of a handle whose stdout may fail: a thread
\* that panics at its println! poisons the Mutex for the threads after it.
NextPoison ==
    \/ \E t \in AsyncTasks, k \in {"best", "eval"}, b \in QueryBoards : Spawn(t, k, b)
    \/ \E t \in AsyncTasks : Lock(t)
    \/ \E t \in AsyncTasks : LockPoisoned(t)
    \/ \E t \in AsyncTasks : SendPosition(t)
    \/ \E t \in AsyncTasks : SendGo(t)
    \/ \E t \in AsyncTasks : ReadLine(t)
    \/ \E t \in AsyncTasks : PanicAtPrint(t)
    \/ \E t \in AsyncTasks : Poll(t)
    \/ \E l \in GoodBestmoveLines(epos) : EngineBestmove(l)

SpecPoison == Init /\ [][NextPoison]_vars

\* Thread t ended because its lock() returned the poison error.
LockRefused(t) == pc[t] = "done" /\ ret[t].err = LockErr

\* C20: a thread of an asynchronous query whose lock() fails on the
\* poisoned Mutex ends at once, without a command to the engine and without
\* a value on its channel; its receiver never gets a value.
PoisonedQueryIsSilent ==
    /\ [][\A t \in AsyncTasks :
            (pc[t] = "lock" /\ pc'[t] # "lock" /\ poisoned) =>
                /\ pc'[t] = "done"
                /\ UNCHANGED engineVars
                /\ chan'[t] = <<>>
                /\ recvd'[t] = <<>>]_vars
    /\ [](\A t \in AsyncTasks : LockRefused(t) => chan[t] = <<>> /\ recvd[t] = <<>>)

\* The first thread panicked at its println!, the second found the Mutex
\* poisoned and ended; the engine has the position of the first only.
SecondQueryRefused ==
    /\ poisoned
    /\ ret[1].err = "panic"
    /\ LockRefused(2)
    /\ qboard[2] # qboard[1]
    /\ epos = qboard[1]

\* ======================================================================
\* ChessGame: starting the full-game analysis
\* ======================================================================

\* A start that does not look at the session.
StartUnguarded(g, r) ==
    [game |-> [g EXCEPT !.analysis_in_progress = TRUE,
                        !.current_analysis = Some(TxtAnalysingGame),
                        !.analysis_receiver = r],
     spawned |-> TRUE]

\* ChessGame::start_full_game_analysis, where r is the number of the thread
\* that a spawn would make: the game after the call, and whether the thread
\* was spawned (with a copy of the move history).
StartFullGameAnalysis(g, r) ==
    IF g.ai_state = Idle /\ g.move_history # <<>> /\ ~g.analysis_in_progress
    THEN [game |-> [g EXCEPT !.analysis_in_progress = TRUE,
                             !.current_analysis = Some(TxtAnalysingGame),
                             !.analysis_receiver = r],
          spawned |-> TRUE]
    ELSE [game |-> g, spawned |-> FALSE]

\* The move histories of the sessions in which the call is looked at.
StartHistories ==
    LET m1 == FormatMove(Move(Sq(0, 0), Sq(0, 1), "None"))
        m2 == FormatMove(Move(Sq(1, 3), Sq(1, 2), "None"))
    IN  {<<>>, <<m1>>, <<m1, m2>>, <<m1, ResignEntry("White")>>, <<ResignEntry("White")>>}

\* The sessions in which the call is looked at: with and without moves, an
\* analysis in progress (its receiver kept, its message shown) or none, the
\* AI idle or thinking.
StartGames ==
    { [NewGame EXCEPT !.move_history = h,
                      !.board = ReplayBoard(h, ReplayedLen(h, 1)),
                      !.game_over = ReplayedLen(h, 1) < Len(h),
                      !.ai_state = s,
                      !.player_color = c,
                      !.analysis_in_progress = p,
                      !.analysis_receiver = IF p THEN 1 ELSE NoReceiver,
                      !.current_analysis = a] :
        <<h, s, c, p, a>> \in
            { x \in StartHistories \X {Idle, 1} \X {"White", "Black"} \X BOOLEAN
                    \X {None, Some(TxtAnalysingGame), Some(TxtAnalysingPosition),
                        Some(TxtAnalysisDone)} :
                /\ x[4] => (x[1] # <<>> /\ x[5] = Some(TxtAnalysingGame))
                /\ ~x[4] => x[5] # Some(TxtAnalysingGame)
                /\ x[5] = Some(TxtAnalysisDone) => x[1] # <<>> } }

InitStart ==
    /\ InitEngine /\ InitTasks /\ InitBooted /\ InitMutex /\ InitGame
    /\ input \in { [fn |-> "start_full_game_analysis", game |-> g,
                    run |-> IF g.analysis_in_progress THEN 2 ELSE 1] : g \in StartGames }
    /\ output = <<>>

ApplyStartFullGameAnalysis ==
    /\ input.fn = "start_full_game_analysis"
    /\ output = <<>>
    /\ output' = <<StartFullGameAnalysis(input.game, input.run)>>
    /\ input' = input
    /\ UNCHANGED <<engineVars, taskVars, anVars, bootVars>>
    /\ UNCHANGED <<poisoned, uiVars>>

SpecStart == InitStart /\ [][ApplyStartFullGameAnalysis]_vars

\* C16: with an analysis in progress, or with an empty move list,
\* start_full_game_analysis spawns no thread and leaves
\* analysis_in_progress, analysis_receiver and current_analysis as they
\* were.
StartIsNoOpWhenBusyOrEmpty ==
    (/\ output # <<>>
     /\ input.game.analysis_in_progress \/ input.game.move_history = <<>>) =>
        /\ ~output[1].spawned
        /\ output[1].game.analysis_in_progress = input.game.analysis_in_progress
        /\ output[1].game.analysis_receiver = input.game.analysis_receiver
        /\ output[1].game.current_analysis = input.game.current_analysis

\* The call was made with the AI idle, two moves played and an analysis in
\* progress: nothing was spawned and the receiver is the one of that
\* analysis.
StartRefusedWhileAnalysing ==
    /\ output # <<>>
    /\ input.game.ai_state = Idle
    /\ Len(input.game.move_history) = 2
    /\ input.game.analysis_in_progress
    /\ ~output[1].spawned
    /\ output[1].game.analysis_receiver = 1

\* ======================================================================
\* ChessGame: the operations of the update loop
\* ======================================================================

TxtBestMoveIs == <<"B", "a", "s", "t", "a", " ", "d", "r", "a", "g", ":", " ">>
TxtEvaluationIs == <<"\n", "E", "v", "a", "l", "u", "e", "r", "i", "n", "g", ":", " ">>
TxtRecommendationIs == <<"\n", "R", "e", "k", "o", "m", "m", "e", "n", "d", "a", "t", "i", "o", "n", ":", " ">>
TxtWhiteBetter == <<"V", "i", "t", " ", "s", "t", "a", "r", " ", "b", "a", "t", "t", "r", "e">>
TxtBlackBetter == <<"S", "v", "a", "r", "t", " ", "s", "t", "a", "r", " ", "b", "a", "t", "t", "r", "e">>
TxtLevel == <<"J", "a", "m", "n", " ", "s", "t", "a", "l", "l", "n", "i", "n", "g">>

\* ChessGame::update: the buttons are made active or inactive.  (The depth
\* slider, the export and the rotation of the board only change what is
\* drawn or written to a file, and are left out.)
Update(g) ==
    [g EXCEPT !.resign_active = ~g.game_over,
              !.white_active = g.ai_state = Idle /\ g.player_color # "White",
              !.black_active = g.ai_state = Idle /\ g.player_color # "Black",
              !.analyze_active = g.ai_state = Idle /\ ~g.analysis_in_progress]

\* ChessGame::update_game_state
UpdateGameState(g) ==
    IF BoardStatus(g.board) # "Ongoing" THEN [g EXCEPT !.game_over = TRUE] ELSE g

\* ChessGame::make_move
MakeMove(g, m) ==
    [UpdateGameState([g EXCEPT !.move_history = Append(@, FormatMove(m)),
                               !.board = MakeMoveNew(@, m),
                               !.selected_square = NoSquare])
        EXCEPT !.ai_state = Idle]

\* ChessGame::reset_game
ResetGame(g) ==
    [g EXCEPT !.board = DefaultBoard,
              !.selected_square = NoSquare,
              !.game_over = FALSE,
              !.ai_state = Idle,
              !.move_history = <<>>,
              !.current_analysis = None,
              !.game_analysis = <<>>,
              !.analysis_in_progress = FALSE,
              !.analysis_receiver = NoReceiver,
              !.review_mode = FALSE,
              !.review_board = <<>>,
              !.review_move_index = <<>>,
              !.original_board = <<>>]

\* ChessGame::resign
Resign(g) ==
    [g EXCEPT !.game_over = TRUE,
              !.move_history = Append(@, ResignEntry(g.player_color))]

\* ChessGame::evaluate_position: the material difference as a text.
EvaluatePosition(board) ==
    [diff \in Int |->
        IF diff > 0 THEN <<"+">> \o NatText(diff)
        ELSE IF diff < 0 THEN IntText(diff)
        ELSE <<"0">>][MaterialDiff(board)]

\* The text that finish_analysis makes of a move text and an evaluation.
AnalysisText(move_str, eval_str) ==
    TxtBestMoveIs \o move_str \o TxtEvaluationIs \o eval_str \o TxtRecommendationIs
    \o (IF Contains(eval_str, <<"+">>) THEN TxtWhiteBetter
        ELSE IF Contains(eval_str, <<"-">>) THEN TxtBlackBetter
        ELSE TxtLevel)

\* ChessGame::finish_analysis
FinishAnalysis(g, best_move) ==
    [g EXCEPT !.current_analysis =
                  Some(AnalysisText(FormatMove(best_move), EvaluatePosition(g.board)))]

\* ChessGame::start_analysis, where t is the thread that
\* get_best_move_async spawns: the game after the call, and whether the
\* thread was spawned.
StartAnalysis(g, t) ==
    IF g.ai_state = Idle
    THEN [game |-> [g EXCEPT !.ai_state = t,
                             !.current_analysis = Some(TxtAnalysingPosition)],
          spawned |-> TRUE]
    ELSE [game |-> g, spawned |-> FALSE]

\* ChessGame::start_ai, likewise.
StartAi(g, t) ==
    IF g.ai_state = Idle
    THEN [game |-> [g EXCEPT !.ai_state = t], spawned |-> TRUE]
    ELSE [game |-> g, spawned |-> FALSE]

\* ChessGame::is_ai_turn
IsAiTurn(g) == ~g.game_over /\ g.board.stm # g.player_color /\ g.ai_state = Idle

\* ChessGame::poll_ai, where received is what try_recv on the receiver in
\* ai_state returned: <<>> for Err, <<mv>> for Ok(mv).
PollAi(g, received) ==
    IF g.ai_state # Idle /\ received # <<>>
    THEN IF g.current_analysis.some /\ Contains(g.current_analysis.text, TxtPositionMark)
         THEN [FinishAnalysis(g, received[1]) EXCEPT !.ai_state = Idle]
         ELSE MakeMove(g, received[1])
    ELSE g

\* poll_ai passes the move it received to make_move, whose
\* board.make_move_new(m) panics on the main thread.
PollAiPanics(g, received) ==
    /\ g.ai_state # Idle
    /\ received # <<>>
    /\ ~(g.current_analysis.some /\ Contains(g.current_analysis.text, TxtPositionMark))
    /\ MakeMoveNewPanics(g.board, received[1])

\* The main thread after a panic: the program has ended.
Panicked == "panicked"

\* A poll that stores the result and keeps the session as it was.
PollKeepsSession(g, received) ==
    IF g.analysis_receiver # NoReceiver /\ received # <<>>
    THEN [g EXCEPT !.game_analysis = <<received[1]>>]
    ELSE g

\* ChessGame::poll_analysis, where received is what try_recv on
\* analysis_receiver returned.
PollAnalysis(g, received) ==
    IF g.analysis_receiver # NoReceiver /\ received # <<>>
    THEN [g EXCEPT !.game_analysis = <<received[1]>>,
                   !.analysis_in_progress = FALSE,
                   !.analysis_receiver = NoReceiver,
                   !.current_analysis = Some(TxtAnalysisDone)]
    ELSE g

\* The entries of a history that analyze_full_game makes a MoveAnalysis
\* of: those before the first resignation entry that are legal moves of
\* the board replayed so far.
AnalysedMoves(hist) ==
    Cardinality({ i \in 1..ReplayedLen(hist, 1) : Resolvable(hist, i) })

\* The rows of the move list of the analysis window that are clicked in
\* the sessions looked at: rows 0 .. MaxRows - 1.  The click handler only
\* compares analysis.moves.len() with the clicked row, so the length is
\* kept up to MaxRows.
MaxRows == 1
ListedMoves(hist) ==
    IF AnalysedMoves(hist) < MaxRows THEN AnalysedMoves(hist) ELSE MaxRows

\* ChessGame::show_position_at_move, for the 0-based move_index.
ShowPositionAtMove(g, move_index) ==
    IF move_index >= Len(g.move_history) THEN g
    ELSE [g EXCEPT !.original_board = IF g.review_mode THEN @ ELSE <<g.board>>,
                   !.review_mode = TRUE,
                   !.review_board =
                       <<ReplayBoard(g.move_history,
                                     IF move_index + 1 <= ReplayedLen(g.move_history, 1)
                                     THEN move_index + 1
                                     ELSE ReplayedLen(g.move_history, 1))>>,
                   !.review_move_index = <<move_index>>,
                   !.selected_square = NoSquare]

\* ChessGame::exit_review_mode
ExitReviewMode(g) ==
    [g EXCEPT !.board = IF g.original_board # <<>> THEN g.original_board[1] ELSE @,
              !.original_board = <<>>,
              !.review_mode = FALSE,
              !.review_board = <<>>,
              !.review_move_index = <<>>,
              !.selected_square = NoSquare]

\* ChessGame::handle_analysis_window_click while the window is open: the
\* game after the click, and whether the window is to be closed.
HandleAnalysisWindowClick(g, c) ==
    CASE c.at = "close" -> [game |-> g, close |-> TRUE]
      [] c.at = "back" /\ g.review_mode -> [game |-> ExitReviewMode(g), close |-> FALSE]
      [] c.at = "row" ->
            [game |-> IF c.row < g.game_analysis[1].moves
                      THEN ShowPositionAtMove(g, c.row) ELSE g,
             close |-> FALSE]
      [] OTHER -> [game |-> g, close |-> FALSE]

\* handle_mouse_click, a click on a square of the board: a first click
\* selects a piece of the player, a second click moves it there if that is
\* a legal move (without promotion).
ClickSquare(g, sq) ==
    IF g.review_mode THEN g
    ELSE IF g.game_over \/ g.board.stm # g.player_color THEN g
    ELSE IF g.selected_square.some
    THEN IF Move(g.selected_square.sq, sq, "None") \in LegalMoves(g.board)
         THEN MakeMove(g, Move(g.selected_square.sq, sq, "None"))
         ELSE IF PieceOn(g.board, sq) # "None" /\ ColorOn(g.board, sq) = g.player_color
         THEN [g EXCEPT !.selected_square = [some |-> TRUE, sq |-> sq]]
         ELSE [g EXCEPT !.selected_square = NoSquare]
    ELSE IF PieceOn(g.board, sq) # "None" /\ ColorOn(g.board, sq) = g.player_color
    THEN [g EXCEPT !.selected_square = [some |-> TRUE, sq |-> sq]]
    ELSE g

\* Where the mouse is pressed: on a button, on the close button of the
\* analysis window, or on a square of the board.
Buttons == {"close", "resign", "white", "black", "new_game", "analyze"}
Clicks ==
    { [at |-> b, sq |-> Sq(0, 0)] : b \in Buttons }
    \cup { [at |-> "board", sq |-> s] : s \in BoardSquares }

\* What a call did: the game after it, and whether it spawned the thread
\* of get_best_move_async and the thread of the full-game analysis.
Did(g, thread, run) == [game |-> g, thread |-> thread, run |-> run]

\* ChessGame::handle_mouse_click for a click at c, where t and r are the
\* numbers of the threads that get_best_move_async and
\* start_full_game_analysis would spawn.
HandleMouseClick(g, c, t, r) ==
    IF g.game_analysis # <<>>
    THEN Did(IF HandleAnalysisWindowClick(g, c).close
             THEN [g EXCEPT !.game_analysis = <<>>]
             ELSE HandleAnalysisWindowClick(g, c).game, FALSE, FALSE)
    ELSE CASE c.at = "resign" /\ g.resign_active /\ ~g.game_over ->
                Did(Resign(g), FALSE, FALSE)
           [] c.at = "white" /\ g.white_active /\ g.ai_state = Idle ->
                Did([g EXCEPT !.player_color = "White"], FALSE, FALSE)
           [] c.at = "black" /\ g.black_active /\ g.ai_state = Idle ->
                Did([g EXCEPT !.player_color = "Black"], FALSE, FALSE)
           [] c.at = "new_game" ->
                Did(ResetGame(g), FALSE, FALSE)
           [] c.at = "analyze" /\ g.analyze_active ->
                IF g.move_history # <<>>
                THEN Did(StartFullGameAnalysis(g, r).game, FALSE,
                         StartFullGameAnalysis(g, r).spawned)
                ELSE Did(StartAnalysis(g, t).game, StartAnalysis(g, t).spawned, FALSE)
           [] c.at = "board" ->
                Did(ClickSquare(g, c.sq), FALSE, FALSE)
           [] OTHER -> Did(g, FALSE, FALSE)

\* ======================================================================
\* main: the update loop, with the threads it spawns
\* ======================================================================

\* The Mutex as held by analysis thread r.
RunTask(r) == NAsync + r

\* The least number of a set of numbers.
Least(S) == CHOOSE x \in S : \A y \in S : x <= y


\* The number under which get_best_move_async spawns its next thread: that
\* of a thread that never ran, or that ended and whose receiver is dropped.
NextThread ==
    IF \E t \in UiTasks : pc[t] \in {"idle", "done"} /\ game.ai_state # t
    THEN Least({ t \in UiTasks : pc[t] \in {"idle", "done"} /\ game.ai_state # t })
    ELSE NoThread

\* The number under which start_full_game_analysis spawns its next thread.
NextRun ==
    IF \E r \in Runs : runs[r].state = "unborn"
    THEN Least({ r \in Runs : runs[r].state = "unborn" })
    ELSE NoThread

\* get_best_move_async(board, depth): a channel is made and thread t is
\* spawned; it starts at inner.lock().
SpawnsThread(t, board, caller) ==
    /\ t \in UiTasks
    /\ request' = [request EXCEPT ![t] = caller]
    /\ pc' = [pc EXCEPT ![t] = "lock"]
    /\ kind' = [kind EXCEPT ![t] = "best"]
    /\ qboard' = [qboard EXCEPT ![t] = board]
    /\ chan' = [chan EXCEPT ![t] = <<>>]
    /\ recvd' = [recvd EXCEPT ![t] = <<>>]

\* No call of get_best_move_async.
SpawnsNoThread == UNCHANGED <<pc, kind, qboard, chan, recvd, request>>

\* start_full_game_analysis's thread::spawn of thread r, with a new channel.
SpawnsRun(r) ==
    /\ r \in Runs
    /\ runs' = [runs EXCEPT ![r] = [state |-> "running", sent |-> <<>>, delivered |-> 0,
                                    moves |-> ListedMoves(game.move_history)]]

\* A receive that waits until a value is there (recv).
RecvReturns(c) == c # <<>>

\* Whether try_recv on a channel that holds c returns: it always does.
TryRecvReturns(c) == TRUE

\* What try_recv returns, <<>> for Err, and what it leaves in the channel.
TryRecv(c) == IF c = <<>> THEN <<>> ELSE <<Head(c)>>
AfterTryRecv(c) == IF c = <<>> THEN c ELSE Tail(c)

\* The move that poll_ai gets from try_recv.
MoveReceived(c) == IF c = <<>> THEN <<>> ELSE <<Head(c).mv>>

\* 1) game.update()
UpdateFrame ==
    /\ ui = "update"
    /\ ui' = "click"
    /\ game' = Update(game)
    /\ UNCHANGED <<runs, request, engineVars, taskVars, anVars, bootVars, fnVars, poisoned>>

\* 2) is_mouse_button_pressed(MouseButton::Left) is false.
NoClick ==
    /\ ui = "click"
    /\ ui' = "poll_ai"
    /\ UNCHANGED <<game, runs, request, engineVars, taskVars, anVars, bootVars, fnVars, poisoned>>

\* The entries of the move history after which the player neither moves
\* nor changes colour in the sessions looked at (the AI still answers).
MaxUiMoves == 1

\* 2) game.handle_mouse_click for a click at c.  The sessions looked at
\* keep within the threads of the model: a click that would start a thread
\* beyond them, or leave none for the AI's next move, is not made.
ClickWithin(c, most) ==
    /\ ui = "click"
    /\ ui' = "poll_ai"
    /\ c.at \in {"board", "white", "black", "row"} => Len(game.move_history) < most
    /\ \E did \in {HandleMouseClick(game, c, NextThread, NextRun)} :
           /\ did.game.ai_state = Idle => \E t \in UiTasks : pc[t] \in {"idle", "done"}
           /\ game' = did.game
           /\ IF did.thread THEN SpawnsThread(NextThread, game.board, ByStartAnalysis) ELSE SpawnsNoThread
           /\ IF did.run THEN SpawnsRun(NextRun) ELSE runs' = runs
    /\ UNCHANGED <<lock, evaluation, eofReads, ret>>
    /\ UNCHANGED <<engineVars, anVars, bootVars, fnVars, poisoned>>

Click(c) == ClickWithin(c, MaxUiMoves)

\* 3) game.poll_ai()
PollAiFrame ==
    /\ ui = "poll_ai"
    /\ IF game.ai_state # Idle
       THEN /\ TryRecvReturns(chan[game.ai_state])
            /\ IF PollAiPanics(game, MoveReceived(chan[game.ai_state]))
               THEN ui' = Panicked /\ game' = game
               ELSE /\ ui' = "poll_analysis"
                    /\ game' = PollAi(game, MoveReceived(chan[game.ai_state]))
            /\ chan' = [chan EXCEPT ![game.ai_state] = AfterTryRecv(@)]
            /\ recvd' = [recvd EXCEPT ![game.ai_state] = @ \o TryRecv(chan[game.ai_state])]
       ELSE ui' = "poll_analysis" /\ UNCHANGED <<game, chan, recvd>>
    /\ UNCHANGED <<lock, pc, kind, qboard, evaluation, eofReads, ret>>
    /\ UNCHANGED <<runs, request, engineVars, anVars, bootVars, fnVars, poisoned>>

\* 4) game.poll_analysis()
PollAnalysisFrame ==
    /\ ui = "poll_analysis"
    /\ ui' = "start_ai"
    /\ IF game.analysis_receiver # NoReceiver
       THEN /\ TryRecvReturns(runs[game.analysis_receiver].sent)
            /\ game' = PollAnalysis(game, TryRecv(runs[game.analysis_receiver].sent))
            /\ runs' = [runs EXCEPT ![game.analysis_receiver] =
                           [@ EXCEPT !.sent = AfterTryRecv(@),
                                     !.delivered = @ + Len(TryRecv(runs[game.analysis_receiver].sent))]]
       ELSE UNCHANGED <<game, runs>>
    /\ UNCHANGED <<request, engineVars, taskVars, anVars, bootVars, fnVars, poisoned>>

\* 5) if game.is_ai_turn() { game.start_ai(ai) }; then the frame is drawn.
StartAiFrame ==
    /\ ui = "start_ai"
    /\ ui' = "update"
    /\ IF IsAiTurn(game)
       THEN /\ game' = StartAi(game, NextThread).game
            /\ SpawnsThread(NextThread, game.board, ByStartAi)
       ELSE /\ game' = game
            /\ SpawnsNoThread
    /\ UNCHANGED <<lock, evaluation, eofReads, ret>>
    /\ UNCHANGED <<runs, engineVars, anVars, bootVars, fnVars, poisoned>>

\* A step of the update loop.
FrameStep ==
    \/ UpdateFrame
    \/ NoClick
    \/ \E c \in Clicks : Click(c)
    \/ PollAiFrame
    \/ PollAnalysisFrame
    \/ StartAiFrame

\* The thread of a full-game analysis takes the Mutex for one of its
\* queries (get_position_evaluation, get_best_move_sync).  What the
\* analysis does with the engine and with the answers is followed in
\* SpecAnalysis; here the thread holds the Mutex for the time of a query
\* and leaves the engine as a finished query leaves it.
RunLock(r) ==
    /\ runs[r].state = "running"
    /\ LockFree
    /\ lock' = RunTask(r)
    /\ runs' = [runs EXCEPT ![r].state = "query"]
    /\ UNCHANGED <<pc, kind, qboard, evaluation, eofReads, ret, chan, recvd>>
    /\ UNCHANGED <<ui, game, request, engineVars, anVars, bootVars, fnVars, poisoned>>

\* The query of the analysis thread returns and the guard is dropped.
RunUnlock(r) ==
    /\ runs[r].state = "query"
    /\ lock' = Unlocked
    /\ runs' = [runs EXCEPT ![r].state = "running"]
    /\ UNCHANGED <<pc, kind, qboard, evaluation, eofReads, ret, chan, recvd>>
    /\ UNCHANGED <<ui, game, request, engineVars, anVars, bootVars, fnVars, poisoned>>

\* analyze_full_game returns and the thread sends the GameAnalysis, which
\* is lost when the receiver was dropped; the thread ends.
RunEnds(r) ==
    /\ runs[r].state = "running"
    /\ runs' = [runs EXCEPT ![r] =
                   [@ EXCEPT !.state = "ended",
                             !.moves = 0,
                             !.sent = IF game.analysis_receiver = r
                                      THEN <<[run |-> r, moves |-> runs[r].moves]>>
                                      ELSE <<>>]]
    /\ UNCHANGED <<ui, game, request, engineVars, taskVars, anVars, bootVars, fnVars, poisoned>>

NextUi ==
    \/ UpdateFrame
    \/ NoClick
    \/ \E c \in Clicks : Click(c)
    \/ PollAiFrame
    \/ PollAnalysisFrame
    \/ StartAiFrame
    \/ \E r \in Runs : RunLock(r)
    \/ \E r \in Runs : RunUnlock(r)
    \/ \E r \in Runs : RunEnds(r)
    \/ \E t \in UiTasks : Lock(t)
    \/ \E t \in UiTasks : SendPosition(t)
    \/ \E t \in UiTasks : SendGo(t)
    \/ \E t \in UiTasks : ReadLine(t)
    \/ \E l \in GoodBestmoveLines(epos) : EngineBestmove(l)

\* The update loop runs on: nothing but the loop itself is needed for its
\* next step.  Neither the threads nor the engine are obliged to go on.
FairUi == WF_vars(FrameStep)

SpecUi == Init /\ [][NextUi]_vars /\ FairUi

\* ----------------------------------------------------------------------
\* The full-game analysis in the update loop
\* ----------------------------------------------------------------------

\* The analysis threads that have been spawned and have not ended.
RunningRuns == { r \in Runs : runs[r].state \in {"running", "query"} }

\* C17: at most one thread of the full-game analysis is running at any
\* time, whatever the clicks (analyse, moves, resign, new game) and polls.
AtMostOneAnalysisRunning == Cardinality(RunningRuns) <= 1

\* A step of poll_analysis.
PollAnalysisStep == ui = "poll_analysis" /\ ui' = "start_ai"

\* The run whose result poll_analysis can take: its receiver is held and
\* its thread has sent.
Deliverable(r) == game.analysis_receiver = r /\ runs[r].sent # <<>>

\* A poll that delivers the result of run r: the GameAnalysis is stored,
\* the session is idle, and nothing more is to be had from the channel.
Delivers(r) ==
    /\ game'.game_analysis = <<Head(runs[r].sent)>>
    /\ ~game'.analysis_in_progress
    /\ game'.analysis_receiver = NoReceiver
    /\ runs'[r].sent = <<>>
    /\ runs'[r].delivered = runs[r].delivered + 1
    /\ \A q \in Runs \ {r} : runs'[q] = runs[q]
    /\ game'.ai_state = Idle => StartFullGameAnalysis(game', r).spawned

\* C18: poll_analysis delivers the GameAnalysis of a completed run exactly
\* once.  The poll that finds the result of the run whose receiver is held
\* stores it and makes the session idle, so that start_full_game_analysis
\* starts a thread again once no AI move is awaited; every other poll
\* delivers nothing and leaves the session as it is; no run is delivered
\* twice; and the result that waits in the held receiver is delivered, or
\* the receiver is dropped by a new game.
AnalysisDeliveredOnce ==
    /\ [][PollAnalysisStep =>
            IF \E r \in Runs : Deliverable(r)
            THEN \A r \in Runs : Deliverable(r) => Delivers(r)
            ELSE UNCHANGED <<game, runs>>]_vars
    /\ [][\A r \in Runs : runs'[r].delivered # runs[r].delivered => PollAnalysisStep]_vars
    /\ [](\A r \in Runs : runs[r].delivered <= 1)
    /\ \A r \in Runs :
           Deliverable(r) ~> (runs[r].delivered = 1 \/ game.analysis_receiver # r)

\* The result of the first analysis was delivered and a second analysis is
\* under way.
SecondAnalysisAfterDelivery ==
    /\ runs[1].delivered = 1
    /\ game.analysis_receiver = 2
    /\ runs[2].state = "running"

\* C19: no operation of the update loop blocks.  No step of the loop
\* takes the Mutex or touches the engine's pipes; the loop's next step can
\* always be taken, whoever holds the Mutex and whatever the channels
\* hold; and the loop comes round to its next iteration again and again
\* without any thread or the engine going on.
UpdateLoopNeverBlocks ==
    /\ [][ui' # ui => lock' = lock /\ UNCHANGED engineVars]_vars
    /\ [](ENABLED FrameStep)
    /\ []<>(ui = "update")

\* Both polls of an iteration found nothing while a thread was holding the
\* Mutex for its query.
PolledWhileMutexHeld ==
    /\ ui = "start_ai"
    /\ lock # Unlocked
    /\ game.ai_state # Idle \/ game.analysis_receiver # NoReceiver

\* ----------------------------------------------------------------------
\* Drop for StockfishController
\* ----------------------------------------------------------------------

\* new is dealing with the process of the path in turn.
InHandshake == npc \in {"send_uci", "wait_uciok", "send_isready", "wait_readyok"}

\* C21: every process that was spawned is torn down when its controller is
\* dropped, a candidate that new rejects included.  new leaves the
\* handshake only with the controller or into the drop; the drop writes
\* "quit" to a process that still runs and then waits, whether or not the
\* write failed; it is left only when the process has ended, so that no
\* process runs when the next path is tried or when new fails; nothing of
\* the drop reaches the error that new returns; and the process of a
\* dropped controller does end.
RejectedCandidateTornDown ==
    /\ [][InHandshake /\ npc' # npc => (InHandshake \/ npc = "Ready" \/ npc = "drop_quit")']_vars
    /\ [][npc = "drop_quit" /\ npc' # npc => npc' = "drop_wait" /\ quit' = alive]_vars
    /\ [][npc = "drop_wait" /\ npc' # npc => ~alive /\ ~alive']_vars
    /\ [][(npc = "drop_quit" \/ npc = "drop_wait") => UNCHANGED last_error]_vars
    /\ [](npc \in {"spawn", "Failed"} => ~alive)
    /\ (npc = "drop_quit") ~> (~alive /\ npc \in {"spawn", "Failed"})

\* The process of the first path was running when its controller was
\* dropped: "quit" was written, the process ended, and new is about to try
\* the second path.
FirstCandidateReaped ==
    /\ npc = "spawn"
    /\ path = 2
    /\ quit
    /\ ~alive

\* ----------------------------------------------------------------------
\* format_move and find_move_from_history
\* ----------------------------------------------------------------------

\* The plies after which a position is looked at.
MaxTripPlies == 6

\* The positions and, for each, the legal moves that make_move may record.
RecordedMoves ==
    UNION { { [fn |-> "find_move_from_history", board |-> b, m |-> mv] :
                mv \in LegalMoves(b) } : b \in BoardsWithin(MaxTripPlies) }

InitRoundTrip ==
    /\ InitEngine /\ InitTasks /\ InitBooted /\ InitMutex /\ InitGame
    /\ input \in RecordedMoves
    /\ output = <<>>

\* make_move records format_move(m); the replay looks the entry up with
\* find_move_from_history on the same position.
ApplyFindMoveFromHistory ==
    /\ input.fn = "find_move_from_history"
    /\ output = <<>>
    /\ output' = <<FindMoveFromHistory(input.board, FormatMove(input.m))>>
    /\ input' = input
    /\ UNCHANGED <<engineVars, taskVars, anVars, bootVars>>
    /\ UNCHANGED <<poisoned, uiVars>>

SpecRoundTrip == InitRoundTrip /\ [][ApplyFindMoveFromHistory]_vars

\* C30: for every position and every legal move m of it, promotions
\* included, find_move_from_history finds m again from the text that
\* format_move made of it.
MoveRecordRoundTrip ==
    output # <<>> => output[1].ok /\ output[1].mv = input.m

\* ----------------------------------------------------------------------
\* The analysed moves and the move history
\* ----------------------------------------------------------------------

\* C27: in the GameAnalysis that analyze_full_game returns, the i-th
\* MoveAnalysis describes the i-th entry of the move history it was given.
AnalysisFollowsHistory ==
    posted # <<>> =>
        \A i \in 1..Len(posted[1].moves) :
            posted[1].moves[i].move_notation = an.hist[i]

\* The side that moves at an even and at an odd place (counted from 0).
SideOfPlace(i) == IF i % 2 = 0 THEN "White" ELSE "Black"

\* C28: for every analysed move, the side by the parity of its index in
\* the move history (used for the centipawn loss), the side to move on the
\* replay board just before the move, and the side by the parity of its
\* index in the analysed list (used for the accuracy) are the same.
MoverNotionsAgree ==
    an.phase = "best" =>
        /\ SideOfPlace(an.idx) = an.board.stm
        /\ SideOfPlace(Len(an.moves)) = an.board.stm

\* ----------------------------------------------------------------------
\* The engine's output and the query that reads it
\* ----------------------------------------------------------------------

\* C23: a query reads only what the engine wrote in answer to its own go
\* command.  When a query is about to write its commands, no line of an
\* earlier query is left unread in the stream and the engine owes no
\* bestmove line to an earlier go, also when the earlier query returned an
\* error.
QueryStartsOnEmptyStream ==
    \A t \in Tasks : pc[t] \in {"position", "go"} => out = <<>> /\ pending = 0

\* ----------------------------------------------------------------------
\* The game after its end
\* ----------------------------------------------------------------------

\* The entry that resign wrote.
IsResignEntry(entry) == Contains(entry, TxtUppgivning)

\* C26: once game_over is true and until reset_game, no move is applied to
\* the board and none is appended to move_history, so that a resignation
\* entry is always the last entry of move_history.
NoMoveAfterGameOver ==
    /\ [][game.game_over /\ game'.move_history # <<>> =>
            game'.board = game.board /\ game'.move_history = game.move_history]_vars
    /\ [](\A i \in 1..Len(game.move_history) :
            IsResignEntry(game.move_history[i]) => i = Len(game.move_history))

\* ----------------------------------------------------------------------
\* Whose request a received move answers
\* ----------------------------------------------------------------------

\* A step of poll_ai in which try_recv returns the move of thread t.
PollAiReceives(t) ==
    /\ ui = "poll_ai" /\ ui' = "poll_analysis"
    /\ game.ai_state = t
    /\ chan[t] # <<>>

\* poll_ai played the move it received as the engine's move.
AppliedAsEngineMove(t) == game' = MakeMove(game, Head(chan[t]).mv)

\* poll_ai showed the move it received as the analysis of the position.
ShownAsPositionAnalysis(t) ==
    game' = [FinishAnalysis(game, Head(chan[t]).mv) EXCEPT !.ai_state = Idle]

\* C29: every best move received for a request of start_ai is played on
\* the board as the engine's move, and only a best move received for a
\* request of start_analysis is shown as the analysis of the position.
ResultGoesToItsRequest ==
    [][\A t \in UiTasks : PollAiReceives(t) =>
          /\ request[t] = ByStartAi => AppliedAsEngineMove(t)
          /\ ShownAsPositionAnalysis(t) => request[t] = ByStartAnalysis]_vars

\* ----------------------------------------------------------------------
\* The update loop with an engine whose answer cannot always be read
\* ----------------------------------------------------------------------

\* A step of the thread of get_best_move_async.
AiThreadStep(t) == Lock(t) \/ SendPosition(t) \/ SendGo(t) \/ ReadLine(t)

\* The engine ends the search it was asked for with a legal best move.
EngineEndsSearch == \E l \in GoodBestmoveLines(epos) : EngineBestmove(l)

\* The engine writes a line that is not valid UTF-8 to a query that is
\* reading, in a search before which it owed nothing.
EngineGarblesAnswer ==
    /\ pending = 1 /\ out = <<>>
    /\ \E t \in UiTasks : pc[t] = "read"
    /\ EngineGarble

\* The clicks of a player who does not ask for a full-game analysis.
PlayClicks == { c \in Clicks : c.at # "analyze" \/ game.move_history = <<>> }

\* The update loop, its threads and an engine that may write a line that
\* is not valid UTF-8 before the best move of a search.
NextThinking ==
    \/ UpdateFrame
    \/ NoClick
    \/ \E c \in PlayClicks : Click(c)
    \/ PollAiFrame
    \/ PollAnalysisFrame
    \/ StartAiFrame
    \/ \E t \in UiTasks : Lock(t)
    \/ \E t \in UiTasks : SendPosition(t)
    \/ \E t \in UiTasks : SendGo(t)
    \/ \E t \in UiTasks : ReadLine(t)
    \/ \E l \in GoodBestmoveLines(epos) : EngineBestmove(l)
    \/ EngineGarblesAnswer

\* The loop runs on, every thread that can take a step takes one, and
\* the engine ends every search.
FairThinking ==
    /\ WF_vars(FrameStep)
    /\ \A t \in UiTasks : WF_vars(AiThreadStep(t))
    /\ WF_vars(EngineEndsSearch)

SpecThinking == Init /\ [][NextThinking]_vars /\ FairThinking

\* C24: whenever ai_state is Thinking it becomes Idle again (as long as
\* the program runs), also when the query failed and its sender was dropped
\* without a value.
ThinkingEndsIdle ==
    \A t \in UiTasks : (game.ai_state = t /\ ui # Panicked) ~> (game.ai_state = Idle \/ ui = Panicked)

\* C22: no error of the core ends the program: after a failed query, as
\* after every other error of the engine, the update loop never panics.
HostNeverPanics == ui # Panicked

\* ----------------------------------------------------------------------
\* Review mode in the update loop
\* ----------------------------------------------------------------------

\* The clicks in the analysis window: the back button and the rows of the
\* move list.
ReviewClicks ==
    { [at |-> "back", sq |-> Sq(0, 0), row |-> 0] }
    \cup { [at |-> "row", sq |-> Sq(0, 0), row |-> i] : i \in 0..(MaxRows - 1) }

\* The clicks of a player who plays, has the game analysed and looks at
\* the analysed moves.
SessionClicks ==
    { c \in Clicks : c.at \in {"board", "analyze", "close"} } \cup ReviewClicks

\* The entries of the move history after which the player of these
\* sessions neither moves nor clicks on a row of the move list.
MaxReviewMoves == 4

\* The update loop with the analysis window, the threads and an engine
\* that answers every search with a legal move.
NextReview ==
    \/ UpdateFrame
    \/ NoClick
    \/ \E c \in SessionClicks : ClickWithin(c, MaxReviewMoves)
    \/ PollAiFrame
    \/ PollAnalysisFrame
    \/ StartAiFrame
    \/ \E r \in Runs : RunLock(r)
    \/ \E r \in Runs : RunUnlock(r)
    \/ \E r \in Runs : RunEnds(r)
    \/ \E t \in UiTasks : Lock(t)
    \/ \E t \in UiTasks : SendPosition(t)
    \/ \E t \in UiTasks : SendGo(t)
    \/ \E t \in UiTasks : ReadLine(t)
    \/ \E l \in GoodBestmoveLines(epos) : EngineBestmove(l)

SpecReview == Init /\ [][NextReview]_vars

\* C25: the live board is the position that the moves recorded in
\* move_history lead to from the initial position, also after review mode
\* was entered and left while a move of the AI arrived.
LiveBoardIsReplay ==
    game.board = ReplayBoard(game.move_history, Len(game.move_history))

\* ----------------------------------------------------------------------
\* The order of the paths and the error that new returns
\* ----------------------------------------------------------------------

\* The error that new records when the handshake step it stands at fails.
StepError ==
    CASE npc = "send_uci" -> "Kunde inte skicka uci"
      [] npc = "wait_uciok" -> "Fick inte uciok"
      [] npc = "send_isready" -> "Kunde inte skicka isready"
      [] npc = "wait_readyok" -> "Fick inte readyok"
      [] OTHER -> "Kunde inte starta"

\* A step in which the path in turn fails: spawn fails, or a step of the
\* handshake fails and the controller goes to its drop.
CandidateFails ==
    \/ npc = "spawn" /\ npc' # "send_uci" /\ npc' # npc
    \/ npc = "spawn" /\ path' # path
    \/ InHandshake /\ npc' = "drop_quit"

\* C31: new tries the paths in their order, one at a time; it goes on to
\* the next path exactly after a failed spawn or after the drop of a
\* controller whose handshake step failed; it stops at the first path whose
\* process completes the handshake; and it returns Err only when the last
\* path has failed, with the error of the failure observed last.
PathsInOrderLastError ==
    /\ [](path \in 1..Len(StockfishPaths))
    /\ [][path' # path =>
            /\ path' = path + 1
            /\ npc' = "spawn"
            /\ npc \in {"spawn", "drop_wait"}]_vars
    /\ [][npc = "spawn" /\ npc' # npc =>
            \/ npc' = "send_uci" /\ path' = path /\ last_error' = last_error
            \/ npc' \in {"spawn", "Failed"} /\ last_error' = StepError]_vars
    /\ [][CandidateFails => last_error' = StepError]_vars
    /\ [][last_error' # last_error => CandidateFails]_vars
    /\ [][InHandshake /\ npc' # npc /\ npc' # "drop_quit" =>
            path' = path /\ (InHandshake' \/ (npc' = "Ready" /\ HandshakeComplete'))]_vars
    /\ [][(npc = "Ready" \/ npc = "Failed") => UNCHANGED <<npc, path, last_error>>]_vars
    /\ [][npc' = "Failed" /\ npc # "Failed" =>
            /\ path = Len(StockfishPaths)
            /\ npc \in {"spawn", "drop_wait"}
            /\ last_error' # ""]_vars
    /\ [](npc = "Failed" => last_error # "" /\ path = Len(StockfishPaths))

\* Every path has failed, the last one at the wait for readyok after
\* earlier paths failed otherwise, and new has returned Err.
AllPathsFailed ==
    /\ npc = "Failed"
    /\ path = Len(StockfishPaths)
    /\ last_error = "Fick inte readyok"
    /\ ~alive

\* ======================================================================
\* get_best_move's read loop on the lines of an answer
\* ======================================================================

\* The read loop of get_best_move, turn by turn, on the lines the engine
\* wrote for the search: the value returned at the first line that ends
\* the loop, Err at a line that cannot be read.  (With the lines used up
\* the loop would wait for more; every answer of BestMoveAnswers ends with
\* a line that starts with "bestmove".)
RECURSIVE BestMoveLoop(_)
BestMoveLoop(lines) ==
    IF lines = <<>> \/ IsBadBytes(Head(lines))
    THEN [ok |-> FALSE, mv |-> NoMove, err |-> "Kunde inte lasa fran Stockfish"]
    ELSE [step \in [done : BOOLEAN, ok : BOOLEAN, mv : {NoMove}, err : {""}] \cup
                   {BestMoveStep(Head(lines))} |->
             IF step.done
             THEN [ok |-> step.ok, mv |-> step.mv, err |-> step.err]
             ELSE BestMoveLoop(Tail(lines))
         ][BestMoveStep(Head(lines))]

\* Move texts an engine may write after "bestmove": moves in coordinate
\* notation, with and without a promotion letter, and texts that are not:
\* too short, not squares, "(none)", "0000", a fifth character that is no
\* promotion letter, characters after the promotion letter or after the
\* two squares.
MoveTexts ==
    { <<"a", "1", "a", "2">>, <<"b", "4", "b", "3">>, <<"c", "3", "c", "4", "q">>,
      <<"a", "1">>, <<"a", "1", "x", "2">>, TxtNone, <<"0", "0", "0", "0">>,
      <<"a", "1", "a", "2", "z">>, <<"c", "3", "c", "4", "q", "q">>,
      <<"a", "1", "a", "2", "z", "z">> }

\* The lines that end the loop: with a move text, with a ponder move after
\* it, without a move text.
MarkerLines ==
    { Line(<<TxtBestmove, t>>) : t \in MoveTexts }
    \cup { Line(<<TxtBestmove, t, TxtPonder, <<"b", "4", "b", "3">>>>) : t \in MoveTexts }
    \cup { Line(<<TxtBestmove>>) }

\* Lines that do not start with "bestmove": an info line, an empty line, a
\* line that names a best move further on.
OtherLines ==
    { ScoreLine(DefaultBoard), Line(<<>>),
      Line(<<TxtInfo, TxtBestmove, <<"b", "4", "b", "3">>>>) }

\* The lines that are read before the line that is looked at last.
MaxSkipped == 1

\* The answers: at most MaxSkipped lines of either kind, then a line that
\* starts with "bestmove".
RECURSIVE LinesWithin(_)
LinesWithin(n) ==
    IF n = 0 THEN {<<>>}
    ELSE LinesWithin(n - 1) \cup
         { Append(r, l) : <<r, l>> \in LinesWithin(n - 1) \X (MarkerLines \cup OtherLines) }

BestMoveAnswers == { r \o <<b>> : <<r, b>> \in LinesWithin(MaxSkipped) \X MarkerLines }

InitBestMove ==
    /\ InitEngine /\ InitTasks /\ InitBooted /\ InitMutex /\ InitGame
    /\ input \in { [fn |-> "get_best_move", lines |-> a] : a \in BestMoveAnswers }
    /\ output = <<>>

ApplyGetBestMove ==
    /\ input.fn = "get_best_move"
    /\ output = <<>>
    /\ output' = <<BestMoveLoop(input.lines)>>
    /\ input' = input
    /\ UNCHANGED <<engineVars, taskVars, anVars, bootVars>>
    /\ UNCHANGED <<poisoned, uiVars>>

SpecBestMove == InitBestMove /\ [][ApplyGetBestMove]_vars

\* A move in compact coordinate notation: two squares, and possibly one
\* promotion letter after them.
IsCoordinateMove(t) ==
    /\ Len(t) \in {4, 5}
    /\ IndexOf(FileChars, t[1]) >= 0 /\ IndexOf(RankChars, t[2]) >= 0
    /\ IndexOf(FileChars, t[3]) >= 0 /\ IndexOf(RankChars, t[4]) >= 0
    /\ Len(t) = 5 => t[5] \in {"q", "r", "n", "b"}

\* The move that a text in coordinate notation names.
MoveWritten(t) ==
    Move(Sq(IndexOf(FileChars, t[1]), IndexOf(RankChars, t[2])),
         Sq(IndexOf(FileChars, t[3]), IndexOf(RankChars, t[4])),
         IF Len(t) = 5 THEN PromoLetter(t[5]) ELSE "None")

\* The first of the lines that begins with the marker.
FirstMarkerLine(lines) ==
    lines[CHOOSE i \in 1..Len(lines) :
            /\ StartsWith(lines[i], TxtBestmove)
            /\ \A j \in 1..(i - 1) : ~StartsWith(lines[j], TxtBestmove)]

\* C32: get_best_move skips every line that does not begin with
\* "bestmove" and takes its result from the first line that does: the move
\* written right after the marker, whether or not a ponder move follows,
\* and a parse error when that text is missing or is not a move in
\* coordinate notation.
BestMoveFromFirstMarkerLine ==
    output # <<>> =>
        [words \in Seq(Text) |->
            IF Len(words) >= 2 /\ IsCoordinateMove(words[2])
            THEN output[1].ok /\ output[1].mv = MoveWritten(words[2])
            ELSE ~output[1].ok
        ][SplitWhitespace(FirstMarkerLine(input.lines))]

====
